---------------------------- MODULE Spec2Model ----------------------------
(***************************************************************************)
(* Model of the database-function documentation CLI (cli/src): the         *)
(* DatabaseAnalyzer (analyzer.ts), the FunctionRecord schema (types.ts)    *)
(* and the output step of generateDocumentation (index.ts).                *)
(*                                                                         *)
(* Texts are sequences of one-character strings.  JavaScript values are    *)
(* records of one shape, [t, n, s, a, o]: t is the type tag, n the number, *)
(* s the characters of a string, a the elements of an array and o the      *)
(* members of an object, in insertion order, each [k |-> key, v |-> value].*)
(***************************************************************************)
EXTENDS Integers, Sequences, FiniteSets, TLC

\* ------------------------------------------------------------------ bounds

\* Longest text of the exhaustive text specification.
MaxTextLen == 5

\* Most candidate files of one run.
MaxFiles == 3

\* Most elements of a parsed array in the validation specification.
MaxElems == 2

\* The most candidate files of a run whose options are not the usual ones.
FewFiles == 1

\* ------------------------------------------------------- JavaScript values

Undefined == [t |-> "undefined", n |-> 0, s |-> <<>>, a |-> <<>>, o |-> <<>>]
Null == [t |-> "null", n |-> 0, s |-> <<>>, a |-> <<>>, o |-> <<>>]
True == [t |-> "true", n |-> 0, s |-> <<>>, a |-> <<>>, o |-> <<>>]
False == [t |-> "false", n |-> 0, s |-> <<>>, a |-> <<>>, o |-> <<>>]
Num(x) == [t |-> "num", n |-> x, s |-> <<>>, a |-> <<>>, o |-> <<>>]
Str(x) == [t |-> "str", n |-> 0, s |-> x, a |-> <<>>, o |-> <<>>]
Arr(x) == [t |-> "arr", n |-> 0, s |-> <<>>, a |-> x, o |-> <<>>]
Obj(x) == [t |-> "obj", n |-> 0, s |-> <<>>, a |-> <<>>, o |-> x]
KV(key, val) == [k |-> key, v |-> val]

\* obj[key] of an object: the member's value, or undefined.
Member(obj, key) ==
    LET S == {x \in 1..Len(obj.o) : obj.o[x].k = key}
    IN IF S = {} THEN Undefined ELSE obj.o[CHOOSE x \in S : TRUE].v

HasKey(obj, key) == \E x \in 1..Len(obj.o) : obj.o[x].k = key

\* obj[key] = val as JSON.parse does it: a repeated key keeps its first
\* place and takes the last value.
SetMember(members, key, val) ==
    IF \E x \in 1..Len(members) : members[x].k = key
    THEN [x \in 1..Len(members) |->
            IF members[x].k = key THEN KV(key, val) ELSE members[x]]
    ELSE Append(members, KV(key, val))

\* v.key of any value that is neither null nor undefined: only a plain
\* object has the keys the analyzer reads (opId, type, ...); an array, a
\* string, a number and a boolean answer undefined.
Get(v, key) == IF v.t = "obj" THEN Member(v, key) ELSE Undefined

\* ToBoolean(v).
Truthy(v) ==
    CASE v.t \in {"undefined", "null", "false"} -> FALSE
      [] v.t = "num" -> v.n # 0
      [] v.t = "str" -> v.s # <<>>
      [] OTHER -> TRUE

\* a || b
Or(x, y) == IF Truthy(x) THEN x ELSE y

\* --------------------------------------------------------------- text

IsWs(c) == c \in {" ", "\n", "\t", "\r"}

RECURSIVE SkipWs(_, _)
\* The first index >= i of t that holds no whitespace (Len(t) + 1 if none).
SkipWs(t, i) == IF i <= Len(t) /\ IsWs(t[i]) THEN SkipWs(t, i + 1) ELSE i

RECURSIVE SkipWsBack(_, _)
\* The last index <= i of t that holds no whitespace (0 if none).
SkipWsBack(t, i) == IF i >= 1 /\ IsWs(t[i]) THEN SkipWsBack(t, i - 1) ELSE i

MatchAt(t, pat, i) ==
    /\ i >= 1
    /\ i + Len(pat) - 1 <= Len(t)
    /\ \A x \in 1..Len(pat) : t[i + x - 1] = pat[x]

\* The indexes of t, in order.
Indexes(t) == [x \in 1..Len(t) |-> x]

\* t.indexOf(pat, i), 1-based; 0 when pat does not occur.
IndexFrom(t, pat, i) ==
    LET hits == SelectSeq(Indexes(t), LAMBDA x : x >= i /\ MatchAt(t, pat, x))
    IN IF hits = <<>> THEN 0 ELSE hits[1]

Contains(t, pat) == IndexFrom(t, pat, 1) # 0

startsWith(t, pat) == MatchAt(t, pat, 1)

endsWith(t, pat) == MatchAt(t, pat, Len(t) - Len(pat) + 1)

\* String.prototype.trim
trim(t) == SubSeq(t, SkipWs(t, 1), SkipWsBack(t, Len(t)))

Separator == <<"\n", "-", "-", "-", "-", "-", "\n">>

\* raw.split("\n-----\n")[0]: the text before the first separator.
jsonPart(raw) ==
    LET at == IndexFrom(raw, Separator, 1)
    IN IF at = 0 THEN raw ELSE SubSeq(raw, 1, at - 1)

\* The backquote character, which a TLA+ string cannot hold.
Backquote == "BACKQUOTE"

\* The markdown fence: three backquotes.
Fence == <<Backquote, Backquote, Backquote>>
FenceJson == Fence \o <<"j", "s", "o", "n">>

\* t.replace(/^<prefix>\s*/, "") of a text that starts with the prefix.
StripOpening(t, prefix) ==
    SubSeq(t, SkipWs(t, Len(prefix) + 1), Len(t))

\* Mutant of StripClosing: the closing fence stays.
keepClosing(t) == t

\* t.replace(/\s*<fence>$/, ""): a text that ends with a fence loses it and the
\* whitespace run before it; any other text is unchanged.
StripClosing(t) ==
    IF endsWith(t, Fence)
    THEN SubSeq(t, 1, SkipWsBack(t, Len(t) - Len(Fence)))
    ELSE t

\* "Clean up markdown code blocks"
cleanMarkdown(part) ==
    LET cleanJson == trim(part)
    IN IF startsWith(cleanJson, FenceJson)
       THEN StripClosing(StripOpening(cleanJson, FenceJson))
       ELSE IF startsWith(cleanJson, Fence)
            THEN StripClosing(StripOpening(cleanJson, Fence))
            ELSE cleanJson

\* Mutant of TrailingComma: no whitespace is allowed between the comma and
\* the closing bracket.
adjacentComma(t, i) ==
    /\ t[i] = ","
    /\ i < Len(t)
    /\ t[i + 1] \in {"}", "]"}

\* A match of /,(\s*[}\]])/ starts at index i: a comma followed by optional
\* whitespace and a closing brace or bracket.
TrailingComma(t, i) ==
    /\ t[i] = ","
    /\ LET j == SkipWs(t, i + 1) IN j <= Len(t) /\ t[j] \in {"}", "]"}

\* json.replace(/,(\s*[}\]])/g, '$1'): the comma of every match is dropped
\* (a match holds one comma, so no two matches overlap).
removeTrailingCommas(t) ==
    LET kept == SelectSeq(Indexes(t), LAMBDA x : ~TrailingComma(t, x))
    IN [x \in 1..Len(kept) |-> t[kept[x]]]

\* (t.match(/"/g) || []).length
quoteCount(t) == Cardinality({x \in 1..Len(t) : t[x] = "\""})

\* t.lastIndexOf(c), 1-based; 0 when absent.
lastIndexOf(t, c) ==
    LET hits == SelectSeq(Indexes(t), LAMBDA x : t[x] = c)
    IN IF hits = <<>> THEN 0 ELSE hits[Len(hits)]

RECURSIVE MatchEndsAt(_, _)
\* A match of /[^\\]"/g ends at index q: a quote after a character that is
\* no backslash and that the match before did not consume (the scan is
\* from the left and its matches do not overlap).
MatchEndsAt(t, q) ==
    /\ q >= 2
    /\ t[q] = "\""
    /\ t[q - 1] # "\\"
    /\ ~MatchEndsAt(t, q - 1)

\* (t.match(/[^\\]"/g) || []).length
unescapedQuotes(t) == Cardinality({q \in 1..Len(t) : MatchEndsAt(t, q)})

\* "Try to fix unterminated strings by finding the last quote and closing it"
closeLastQuote(fixed) ==
    IF quoteCount(fixed) % 2 # 0
    THEN LET lastQuoteIndex == lastIndexOf(fixed, "\"")
             beforeQuote == SubSeq(fixed, 1, lastQuoteIndex - 1)
         IN IF lastQuoteIndex # 0 /\ unescapedQuotes(beforeQuote) % 2 # 0
            THEN SubSeq(fixed, 1, lastQuoteIndex) \o <<"\"">>
                     \o SubSeq(fixed, lastQuoteIndex + 1, Len(fixed))
            ELSE fixed
    ELSE fixed

fixCommonJsonIssues(json) == closeLastQuote(removeTrailingCommas(json))

\* ---------------------------------------------------------- JSON.parse

\* A failed parse.
Fail == [ok |-> FALSE, v |-> Undefined, i |-> 0]

\* A parsed value v, the text read up to index i - 1.
Parsed(val, next) == [ok |-> TRUE, v |-> val, i |-> next]

Digits == <<"0", "1", "2", "3", "4", "5", "6", "7", "8", "9">>

IsDigit(c) == \E x \in 1..Len(Digits) : Digits[x] = c

DigitVal(c) == (CHOOSE x \in 1..Len(Digits) : Digits[x] = c) - 1

\* The characters a backslash may precede in a JSON string, with what each
\* stands for (the \b and \uXXXX escapes are left out: no modelled text
\* holds them).
Unescape(c) ==
    CASE c = "n" -> "\n"
      [] c = "t" -> "\t"
      [] c = "r" -> "\r"
      [] c = "f" -> "\f"
      [] OTHER -> c

IsEscape(c) == c \in {"\"", "\\", "/", "n", "t", "r", "f"}

RECURSIVE ParseChars(_, _, _)
\* The characters of a string from index i (after the opening quote) to the
\* closing quote: an unescaped control character and an unknown escape are
\* syntax errors, and so is the end of the text.
ParseChars(t, i, acc) ==
    IF i > Len(t) THEN Fail
    ELSE IF t[i] = "\"" THEN Parsed(Str(acc), i + 1)
    ELSE IF t[i] = "\\"
         THEN IF i + 1 <= Len(t) /\ IsEscape(t[i + 1])
              THEN ParseChars(t, i + 2, Append(acc, Unescape(t[i + 1])))
              ELSE Fail
    ELSE IF t[i] \in {"\n", "\t", "\r", "\f"} THEN Fail
    ELSE ParseChars(t, i + 1, Append(acc, t[i]))

RECURSIVE ParseDigits(_, _, _)
\* The digits from index i on, as a number.
ParseDigits(t, i, acc) ==
    IF i <= Len(t) /\ IsDigit(t[i])
    THEN ParseDigits(t, i + 1, 10 * acc + DigitVal(t[i]))
    ELSE Parsed(Num(acc), i)

\* An integer at index i: an optional minus, then 0 or a digit string with
\* no leading zero (fractions and exponents are left out: no modelled text
\* holds them).
ParseNumber(t, i) ==
    LET neg == t[i] = "-"
        d == IF neg THEN i + 1 ELSE i
    IN IF d > Len(t) \/ ~IsDigit(t[d]) THEN Fail
       ELSE LET r == IF t[d] = "0" THEN Parsed(Num(0), d + 1)
                     ELSE ParseDigits(t, d, 0)
            IN IF r.i <= Len(t) /\ IsDigit(t[r.i]) THEN Fail
               ELSE IF neg THEN Parsed(Num(0 - r.v.n), r.i) ELSE r

RECURSIVE ParseValue(_, _)
RECURSIVE ParseElements(_, _, _)
RECURSIVE ParseMembers(_, _, _)

\* The elements of an array from the value at index i to the closing
\* bracket.
ParseElements(t, i, acc) ==
    LET r == ParseValue(t, i)
    IN IF ~r.ok THEN Fail
       ELSE LET j == SkipWs(t, r.i)
            IN IF j > Len(t) THEN Fail
               ELSE IF t[j] = ","
                    THEN ParseElements(t, SkipWs(t, j + 1), Append(acc, r.v))
               ELSE IF t[j] = "]" THEN Parsed(Arr(Append(acc, r.v)), j + 1)
               ELSE Fail

\* The members of an object from the key at index i to the closing brace.
ParseMembers(t, i, acc) ==
    IF i > Len(t) \/ t[i] # "\"" THEN Fail
    ELSE LET key == ParseChars(t, i + 1, <<>>)
         IN IF ~key.ok THEN Fail
            ELSE LET c == SkipWs(t, key.i)
                 IN IF c > Len(t) \/ t[c] # ":" THEN Fail
                    ELSE LET r == ParseValue(t, SkipWs(t, c + 1))
                         IN IF ~r.ok THEN Fail
                            ELSE LET j == SkipWs(t, r.i)
                                     now == SetMember(acc, key.v.s, r.v)
                                 IN IF j > Len(t) THEN Fail
                                    ELSE IF t[j] = ","
                                         THEN ParseMembers(t, SkipWs(t, j + 1), now)
                                    ELSE IF t[j] = "}"
                                         THEN Parsed(Obj(now), j + 1)
                                    ELSE Fail

\* The JSON value that starts at index i.
ParseValue(t, i) ==
    IF i > Len(t) THEN Fail
    ELSE IF t[i] = "[" 
         THEN LET j == SkipWs(t, i + 1)
              IN IF j <= Len(t) /\ t[j] = "]" THEN Parsed(Arr(<<>>), j + 1)
                 ELSE ParseElements(t, j, <<>>)
    ELSE IF t[i] = "{"
         THEN LET j == SkipWs(t, i + 1)
              IN IF j <= Len(t) /\ t[j] = "}" THEN Parsed(Obj(<<>>), j + 1)
                 ELSE ParseMembers(t, j, <<>>)
    ELSE IF t[i] = "\"" THEN ParseChars(t, i + 1, <<>>)
    ELSE IF t[i] = "-" \/ IsDigit(t[i]) THEN ParseNumber(t, i)
    ELSE IF MatchAt(t, <<"t", "r", "u", "e">>, i) THEN Parsed(True, i + 4)
    ELSE IF MatchAt(t, <<"f", "a", "l", "s", "e">>, i) THEN Parsed(False, i + 5)
    ELSE IF MatchAt(t, <<"n", "u", "l", "l">>, i) THEN Parsed(Null, i + 4)
    ELSE Fail

\* JSON.parse(t): one value with whitespace around it, or a SyntaxError
\* (ok = FALSE).
JSONparse(t) ==
    LET r == ParseValue(t, SkipWs(t, 1))
    IN IF r.ok /\ SkipWs(t, r.i) = Len(t) + 1 THEN r ELSE Fail

\* ------------------------------------------------------ JSON.stringify

\* The text of a string value: quoted, with the quote, the backslash and
\* the control characters escaped.
RECURSIVE QuoteChars(_, _)
QuoteChars(str, i) ==
    IF i > Len(str) THEN <<>>
    ELSE (CASE str[i] = "\"" -> <<"\\", "\"">>
            [] str[i] = "\\" -> <<"\\", "\\">>
            [] str[i] = "\n" -> <<"\\", "n">>
            [] str[i] = "\t" -> <<"\\", "t">>
            [] str[i] = "\r" -> <<"\\", "r">>
            [] str[i] = "\f" -> <<"\\", "f">>
            [] OTHER -> <<str[i]>>) \o QuoteChars(str, i + 1)

\* Mutant of Quote: nothing is escaped.
quoteRaw(str) == <<"\"">> \o str \o <<"\"">>

Quote(str) == <<"\"">> \o QuoteChars(str, 1) \o <<"\"">>

RECURSIVE NatText(_)
\* The decimal digits of a natural number.
NatText(x) ==
    IF x < 10 THEN <<Digits[x + 1]>>
    ELSE NatText(x \div 10) \o <<Digits[(x % 10) + 1]>>

NumText(x) == IF x < 0 THEN <<"-">> \o NatText(0 - x) ELSE NatText(x)

RECURSIVE Spaces(_)
Spaces(x) == IF x <= 0 THEN <<>> ELSE <<" ">> \o Spaces(x - 1)

\* The members JSON.stringify writes: those whose value is not undefined.
Written(members) == SelectSeq(members, LAMBDA m : m.v.t # "undefined")

\* The "space" argument of JSON.stringify(spec, null, 2).
IndentStep == 2

RECURSIVE Stringify(_, _)
RECURSIVE StringifyElements(_, _, _)
RECURSIVE StringifyMembers(_, _, _)

\* The elements of an array from index i on, one per line at indentation
\* ind, separated by commas (an undefined element is written null).
StringifyElements(elems, i, ind) ==
    IF i > Len(elems) THEN <<>>
    ELSE Spaces(ind)
         \o Stringify(IF elems[i].t = "undefined" THEN Null ELSE elems[i], ind)
         \o (IF i < Len(elems) THEN <<",">> ELSE <<>>) \o <<"\n">>
         \o StringifyElements(elems, i + 1, ind)

\* The members of an object from index i on, one per line at indentation
\* ind, separated by commas.
StringifyMembers(members, i, ind) ==
    IF i > Len(members) THEN <<>>
    ELSE Spaces(ind) \o Quote(members[i].k) \o <<":", " ">>
         \o Stringify(members[i].v, ind)
         \o (IF i < Len(members) THEN <<",">> ELSE <<>>) \o <<"\n">>
         \o StringifyMembers(members, i + 1, ind)

\* JSON.stringify(v, null, 2) of a value at indentation ind.
Stringify(v, ind) ==
    CASE v.t = "str" -> Quote(v.s)
      [] v.t = "num" -> NumText(v.n)
      [] v.t = "true" -> <<"t", "r", "u", "e">>
      [] v.t = "false" -> <<"f", "a", "l", "s", "e">>
      [] v.t = "null" -> <<"n", "u", "l", "l">>
      [] v.t = "arr" ->
            IF v.a = <<>> THEN <<"[", "]">>
            ELSE <<"[", "\n">> \o StringifyElements(v.a, 1, ind + IndentStep)
                 \o Spaces(ind) \o <<"]">>
      [] v.t = "obj" ->
            IF Written(v.o) = <<>> THEN <<"{", "}">>
            ELSE <<"{", "\n">>
                 \o StringifyMembers(Written(v.o), 1, ind + IndentStep)
                 \o Spaces(ind) \o <<"}">>

JSONstringify(v) == Stringify(v, 0)

\* ------------------------------------------------------------ the schema

K_opId == <<"o", "p", "I", "d">>
K_summary == <<"s", "u", "m", "m", "a", "r", "y">>
K_description == <<"d", "e", "s", "c", "r", "i", "p", "t", "i", "o", "n">>
K_tags == <<"t", "a", "g", "s">>
K_input == <<"i", "n", "p", "u", "t">>
K_output == <<"o", "u", "t", "p", "u", "t">>
K_engine == <<"e", "n", "g", "i", "n", "e">>
K_touches == <<"t", "o", "u", "c", "h", "e", "s">>
K_type == <<"t", "y", "p", "e">>
K_properties == <<"p", "r", "o", "p", "e", "r", "t", "i", "e", "s">>
K_required == <<"r", "e", "q", "u", "i", "r", "e", "d">>
K_read == <<"r", "e", "a", "d">>
K_write == <<"w", "r", "i", "t", "e">>
K_version == <<"v", "e", "r", "s", "i", "o", "n">>
K_info == <<"i", "n", "f", "o">>
K_title == <<"t", "i", "t", "l", "e">>
K_functions == <<"f", "u", "n", "c", "t", "i", "o", "n", "s">>

Unknown == Str(<<"u", "n", "k", "n", "o", "w", "n">>)
ObjectType == Str(<<"o", "b", "j", "e", "c", "t">>)

\* z.string()
zString(v) == v.t = "str"

\* z.array(z.string())
zStringArray(v) == v.t = "arr" /\ \A x \in 1..Len(v.a) : zString(v.a[x])

\* z.record(z.any()): a plain object (an array and null are refused).
zRecord(v) == v.t = "obj"

\* The members a z.object writes: each key of the shape that the data has,
\* in the order of the shape (unknown keys are stripped).
Shape(data, shapeKeys) ==
    LET all == [x \in 1..Len(shapeKeys) |-> KV(shapeKeys[x], Member(data, shapeKeys[x]))]
    IN SelectSeq(all, LAMBDA m : HasKey(data, m.k))

\* The "input" field of DatabaseFunctionSchema.
zInput(v) ==
    \/ v.t = "undefined"
    \/ /\ v.t = "obj"
       /\ zString(Member(v, K_type))
       /\ Member(v, K_properties).t = "undefined" \/ zRecord(Member(v, K_properties))
       /\ Member(v, K_required).t = "undefined" \/ zStringArray(Member(v, K_required))

\* The "output" field of DatabaseFunctionSchema.
zOutput(v) ==
    \/ v.t = "undefined"
    \/ /\ v.t = "obj"
       /\ zString(Member(v, K_type))
       /\ Member(v, K_properties).t = "undefined" \/ zRecord(Member(v, K_properties))

\* The "touches" field of DatabaseFunctionSchema.
zTouches(v) ==
    \/ v.t = "undefined"
    \/ /\ v.t = "obj"
       /\ Member(v, K_read).t = "undefined" \/ zStringArray(Member(v, K_read))
       /\ Member(v, K_write).t = "undefined" \/ zStringArray(Member(v, K_write))

\* What a nested z.object answers for a valid value.
Stripped(v, shapeKeys) ==
    IF v.t = "obj" THEN Obj(Shape(v, shapeKeys)) ELSE v

\* DatabaseFunctionSchema accepts v.
DatabaseFunctionSchema(v) ==
    /\ v.t = "obj"
    /\ zString(Member(v, K_opId))
    /\ zString(Member(v, K_summary))
    /\ zString(Member(v, K_description))
    /\ zStringArray(Member(v, K_tags))
    /\ zInput(Member(v, K_input))
    /\ zOutput(Member(v, K_output))
    /\ zString(Member(v, K_engine))
    /\ zTouches(Member(v, K_touches))

\* SpecSchema.shape.functions.element.parse(v) of an accepted v: the keys of
\* the schema, in its order; a key the data holds with the value undefined
\* stays, with that value.
schemaParse(v) ==
    Obj(Shape(
        Obj(<<KV(K_opId, Member(v, K_opId)),
              KV(K_summary, Member(v, K_summary)),
              KV(K_description, Member(v, K_description)),
              KV(K_tags, Member(v, K_tags)),
              KV(K_input, Stripped(Member(v, K_input), <<K_type, K_properties, K_required>>)),
              KV(K_output, Stripped(Member(v, K_output), <<K_type, K_properties>>)),
              KV(K_engine, Member(v, K_engine)),
              KV(K_touches, Stripped(Member(v, K_touches), <<K_read, K_write>>))>>),
        SelectSeq(<<K_opId, K_summary, K_description, K_tags, K_input,
                    K_output, K_engine, K_touches>>,
                  LAMBDA key : HasKey(v, key))))

\* ----------------------------------------------------- DatabaseAnalyzer

\* Mutant of normalizeEngine: the default is the empty string.
engineEmpty(func) == Or(Get(func, K_engine), Str(<<>>))

\* Mutant of normalizeTouches: touches is kept as given.
touchesAsGiven(func) == Get(func, K_touches)

\* engine: func.engine || "unknown"
normalizeEngine(func) == Or(Get(func, K_engine), Unknown)

\* touches: func.touches || {}
normalizeTouches(func) == Or(Get(func, K_touches), Obj(<<>>))

\* normalizeFunction(func) of a func that is not null: "Normalize function
\* object to ensure all required fields exist".
normalizeFunction(func) ==
    LET inp == Get(func, K_input)
        out == Get(func, K_output)
    IN Obj(<<
        KV(K_opId, Or(Get(func, K_opId), Unknown)),
        KV(K_summary, Or(Get(func, K_summary), Str(<<>>))),
        KV(K_description, Or(Get(func, K_description), Str(<<>>))),
        KV(K_tags, IF Get(func, K_tags).t = "arr" THEN Get(func, K_tags) ELSE Arr(<<>>)),
        KV(K_input,
           IF Truthy(inp)
           THEN Obj(<<KV(K_type, Or(Get(inp, K_type), ObjectType)),
                      KV(K_properties, Or(Get(inp, K_properties), Obj(<<>>))),
                      KV(K_required, Or(Get(inp, K_required), Arr(<<>>)))>>)
           ELSE Undefined),
        KV(K_output,
           IF Truthy(out)
           THEN Obj(<<KV(K_type, Or(Get(out, K_type), ObjectType)),
                      KV(K_properties, Or(Get(out, K_properties), Obj(<<>>)))>>)
           ELSE Undefined),
        KV(K_engine, normalizeEngine(func)),
        KV(K_touches, normalizeTouches(func))>>)

\* One console line: its level, which message it is, and the value the
\* message names (a file name, an opId, a text).
Line(level, msg, about) == [level |-> level, msg |-> msg, about |-> about]

\* cleanJson.substring(0, 500)
ExcerptLen == 500

\* What analyzeFile answers: it returned the functions or threw "Analysis
\* failed", having written the console lines of log.
Returned(functions, log) == [threw |-> FALSE, functions |-> functions, log |-> log]
Threw(log) == [threw |-> TRUE, functions |-> <<>>, log |-> log]

\* Mutant of parseError: the lines are written and nothing is thrown.
parseErrorSwallowed(cleanJson, log) ==
    Returned(<<>>, log \o <<Line("error", "Raw AI response for debugging", Str(<<>>)),
                            Line("error", "excerpt", Str(cleanJson \o <<".", ".", ".">>))>>)

\* The catch of a failed JSON.parse, which also catches whatever the loop
\* over the parsed functions lets escape: two console.error lines, then
\* "Failed to parse AI response", rethrown as "Analysis failed".
parseError(cleanJson, log) ==
    Threw(log \o <<Line("error", "Raw AI response for debugging", Str(<<>>)),
                   Line("error", "excerpt",
                        Str(SubSeq(cleanJson, 1, IF Len(cleanJson) < ExcerptLen
                                                 THEN Len(cleanJson) ELSE ExcerptLen)
                            \o <<".", ".", ".">>))>>)

RECURSIVE validateEach(_, _, _, _, _)
\* "Validate each function": the loop over the parsed functions from index
\* x on.  A func that passes the schema is pushed; one that does not is
\* warned about, and the warning reads func.opId: of a null func that read
\* throws inside the catch, out of the loop and into the catch of the
\* parse.
validateEach(functions, x, validatedFunctions, log, cleanJson) ==
    IF x > Len(functions) THEN Returned(validatedFunctions, log)
    ELSE LET func == functions[x]
         IN IF func.t = "null"
            THEN parseError(cleanJson, log)
            ELSE LET normalizedFunc == normalizeFunction(func)
                 IN IF DatabaseFunctionSchema(normalizedFunc)
                    THEN validateEach(functions, x + 1,
                             Append(validatedFunctions, schemaParse(normalizedFunc)),
                             log, cleanJson)
                    ELSE validateEach(functions, x + 1, validatedFunctions,
                             Append(log, Line("warn", "Invalid function schema",
                                              Or(Get(func, K_opId), Unknown))),
                             cleanJson)

\* The text analyzeFile hands to JSON.parse.
cleanedJson(raw) == fixCommonJsonIssues(cleanMarkdown(jsonPart(raw)))

\* analyzeFile from the answer of the provider on: the text is cleaned,
\* parsed (a value that is no array is wrapped in one) and validated.
analyzeResponse(raw) ==
    LET cleanJson == cleanedJson(raw)
        parsed == JSONparse(cleanJson)
    IN IF ~parsed.ok THEN parseError(cleanJson, <<>>)
       ELSE validateEach(IF parsed.v.t = "arr" THEN parsed.v.a ELSE <<parsed.v>>,
                         1, <<>>, <<>>, cleanJson)

\* analyzeFile(fileContent, fileName), given what the call of the provider
\* does: it throws, or answers the text raw.
analyzeFile(call) ==
    IF call.threw THEN Threw(<<>>) ELSE analyzeResponse(call.raw)

\* ------------------------------------------------- what a provider answers

RECURSIVE Compact(_)
RECURSIVE CompactElements(_, _)
RECURSIVE CompactMembers(_, _)

\* A string as a model writes it in its JSON text.
Literal(str) == <<"\"">> \o QuoteChars(str, 1) \o <<"\"">>

CompactElements(elems, i) ==
    IF i > Len(elems) THEN <<>>
    ELSE Compact(elems[i]) \o (IF i < Len(elems) THEN <<",">> ELSE <<>>)
         \o CompactElements(elems, i + 1)

CompactMembers(members, i) ==
    IF i > Len(members) THEN <<>>
    ELSE Literal(members[i].k) \o <<":">> \o Compact(members[i].v)
         \o (IF i < Len(members) THEN <<",">> ELSE <<>>)
         \o CompactMembers(members, i + 1)

\* The JSON text of a value as a model writes it on one line.
Compact(v) ==
    CASE v.t = "arr" -> <<"[">> \o CompactElements(v.a, 1) \o <<"]">>
      [] v.t = "obj" -> <<"{">> \o CompactMembers(v.o, 1) \o <<"}">>
      [] v.t = "str" -> Literal(v.s)
      [] OTHER -> Stringify(v, 0)

\* The record of Scenario B.
RecXY ==
    Obj(<<KV(K_opId, Str(<<"x", ".", "y">>)),
          KV(K_summary, Str(<<"s">>)),
          KV(K_description, Str(<<"d">>)),
          KV(K_tags, Arr(<<>>)),
          KV(K_engine, Str(<<"s", "q", "l">>))>>)

\* A record with every field, quotes in its description, and the opId of
\* RecXY.
RecFull ==
    Obj(<<KV(K_opId, Str(<<"x", ".", "y">>)),
          KV(K_summary, Str(<<"s", "2">>)),
          KV(K_description, Str(<<"a", "\"", "b", "\"">>)),
          KV(K_tags, Arr(<<Str(<<"t">>)>>)),
          KV(K_input, Obj(<<KV(K_type, ObjectType),
                            KV(K_properties, Obj(<<KV(<<"i", "d">>, Obj(<<KV(K_type, Str(<<"n">>))>>))>>)),
                            KV(K_required, Arr(<<Str(<<"i", "d">>)>>))>>)),
          KV(K_output, Obj(<<KV(K_type, ObjectType)>>)),
          KV(K_engine, Str(<<"o", "r", "m">>)),
          KV(K_touches, Obj(<<KV(K_read, Arr(<<Str(<<"u">>)>>)),
                              KV(K_write, Arr(<<Str(<<"l">>)>>))>>))>>)

\* A record with an opId alone, an empty input and an empty output.
RecBare ==
    Obj(<<KV(K_opId, Str(<<"g">>)), KV(K_input, Obj(<<>>)), KV(K_output, Obj(<<>>))>>)

\* A record whose opId is a number: the schema refuses it.
RecBadId ==
    Obj(<<KV(K_opId, Num(5)), KV(K_summary, Str(<<"s">>))>>)

FenceJsonLine == FenceJson \o <<"\n">>

\* The text of Scenario B: a fenced array whose closing bracket is missing.
ScenarioB == FenceJsonLine \o <<"[">> \o Compact(RecXY) \o <<" ">> \o Fence

\* The text of Scenario B with the closing bracket.
ScenarioBComplete ==
    FenceJsonLine \o Compact(Arr(<<RecXY>>)) \o <<"\n">> \o Fence

\* An array of a valid record, a record the schema refuses and another
\* valid record.
MixedResponse == Compact(Arr(<<RecXY, RecBadId, RecBare>>))

\* A text that is no JSON.
Garbage == <<"s", "o", "r", "r", "y">>

\* The texts a provider answers in the runs of the model.
Responses ==
    << Compact(Arr(<<RecFull>>)),
       ScenarioBComplete,
       ScenarioB,
       MixedResponse,
       Compact(Arr(<<RecXY, Null>>)),
       Garbage >>

\* What a call of the provider throws: the request did not get through, or
\* the backend refused the key.
ProviderErrors == {"network", "auth"}

\* What a call of the provider does: it throws, or answers a text.
ProviderCalls ==
    {[threw |-> TRUE, raw |-> <<>>, error |-> e] : e \in ProviderErrors}
        \cup {[threw |-> FALSE, raw |-> Responses[x], error |-> "none"] :
                 x \in 1..Len(Responses)}

\* ---------------------------------------------------------------- state

VARIABLES
    pc,             \* where the run is
    files,          \* the candidate files: their names, in processing order
    projectTitle,   \* the title of the Spec
    format,         \* the output format of the run
    i,              \* analyzeWithStreaming: the index of the file at hand (1-based)
    allFunctions,   \* analyzeWithStreaming: the records accumulated
    console,        \* the console lines written, in order
    progress,       \* the messages handed to onProgress, in order
    calls,          \* what the call of the provider did, per file processed
    results,        \* what analyzeFile answered, per file processed
    spec,           \* the Spec analyzeWithStreaming returned
    written,        \* the text written to the output file
    started,        \* the files the provider was called for, in order
    provider,       \* the provider option of the run
    apiKey,         \* whether the environment holds the key of that provider
    text,           \* text specification: the raw text under test
    parts,          \* text specification: how the text was put together
    fixed,          \* text specification: fixCommonJsonIssues(text)
    handed,         \* text specification: the text handed to JSON.parse
    candidates,     \* validation specification: the parsed functions
    answer,         \* what analyzeFile answered for the text or the candidates
    func,           \* page specification: the record to render
    rendered,       \* page specification: what the page shows of the record
    fsOps,          \* what the run did to the file system, in order
    entry,          \* the method of DatabaseAnalyzer that runs the loop
    onProgress,     \* the progress callback the loop was given
    root,           \* discovery specification: what the input path is
    onDisk,         \* discovery specification: the files under the input path
    databaseFiles   \* discovery specification: the files discovery returned

vars == <<pc, files, projectTitle, format, i, allFunctions, console, progress,
          calls, results, spec, written, started, provider, apiKey, text,
          parts, fixed, handed, candidates, answer, func, rendered, fsOps,
          entry, onProgress, root, onDisk, databaseFiles>>

\* The variables of a run of generateDocumentation, but pc.
runVars == <<files, projectTitle, format, i, allFunctions, console, progress,
             calls, results, spec, written, started, provider, apiKey,
             fsOps, entry, onProgress>>

\* The variables of the text and validation specifications.
unitVars == <<text, parts, fixed, handed, candidates, answer, func, rendered,
              root, onDisk, databaseFiles>>

\* The name of the x-th candidate file.
FileName(x) == <<"f", Digits[x + 1]>>

Titles == {<<"a", "p", "p">>, <<"D", "a", "t", "a", "b", "a", "s", "e", " ", "F", "u", "n", "c", "t", "i", "o", "n", "s">>}

Formats == {"html", "json"}

\* The values the --format option is given in the runs of the model: the
\* option takes any string.
FormatOptions == Formats \cup {"xml"}

Providers == {"openai", "gemini"}

\* The values the --provider option is given in the runs of the model.
ProviderOptions == Providers \cup {"other"}

\* What the file system does in the output step: all is written, mkdirSync
\* throws, or writeFileSync throws.
Disk == {"ok", "mkdirFails", "writeFails"}

\* ------------------------------------------------- analyzeWithStreaming

\* The Spec analyzeFiles and analyzeWithStreaming return.
makeSpec(title, functions) ==
    Obj(<<KV(K_version, Str(<<"0", ".", "1", ".", "0">>)),
          KV(K_info, Obj(<<KV(K_title, Str(title))>>)),
          KV(K_functions, Arr(functions))>>)

\* Mutant of pushFunctions: a record whose opId is already there is not
\* pushed again.
pushUnique(all, result) ==
    IF result.threw THEN all
    ELSE all \o SelectSeq(result.functions,
                 LAMBDA f : \A x \in 1..Len(all) :
                     Member(all[x], K_opId) # Member(f, K_opId))

\* allFunctions after the try block around analyzeFile: the functions of a
\* call that returned are pushed, a call that threw leaves it as it is.
pushFunctions(all, result) ==
    IF result.threw THEN all ELSE all \o result.functions

\* The console after the try block around analyzeFile: what analyzeFile
\* wrote, and for a call that threw the warning of the catch.
warnFailure(lines, fileName, result) ==
    lines \o result.log
          \o (IF result.threw
              THEN <<Line("warn", "Failed to analyze", Str(fileName))>>
              ELSE <<>>)

\* Mutant of nextFile: a failure ends the loop (the throw is not caught).
stopAtFailure(x, result) == IF result.threw THEN x + MaxFiles ELSE x + 1

\* Mutant of nextFile: a file that failed is tried again.
retryFailed(x, result) == IF result.threw THEN x ELSE x + 1

\* The index of the file the loop turns to after file x.
nextFile(x, result) == x + 1

\* Mutant of analyzingMessage: the position is the index of the loop,
\* which counts from 0.
analyzingFromZero(fileName, x, total) ==
    [file |-> fileName, pos |-> x - 1, total |-> total]

\* "Analyzing <fileName> (<i + 1>/<files.length>)" for the x-th file: the
\* file name, the position and the total the message holds.
analyzingMessage(fileName, x, total) ==
    [file |-> fileName, pos |-> x, total |-> total]

\* Mutant of awaitProvider: the call is awaited and never settles.
neverSettles(x) == "hung"

\* Mutant of awaitProvider: the call is not awaited, the loop goes on.
notAwaited(x) == "loop"

\* await this.aiProvider.analyzeFile(...): where the run is once the call
\* for file x is made: suspended until the call settles.
awaitProvider(x) == "await"

\* The methods of DatabaseAnalyzer that run the loop over the files, and
\* the callbacks analyzeWithStreaming may be given: none, one that
\* returns, one that throws.
Entries == {"analyzeFiles", "analyzeWithStreaming"}
Callbacks == {"absent", "listens", "throws"}

\* onProgress?.(message): the callback is called.
tells == entry = "analyzeWithStreaming" /\ onProgress # "absent"

\* The messages the callback was called with, after onProgress?.(message).
tell(said, message) == IF tells THEN Append(said, message) ELSE said

\* The message of the loop at index x: of the file at hand or, past the
\* last file, "Generating documentation...".
messageAt(x) ==
    IF x <= Len(files) THEN analyzingMessage(files[x], x, Len(files))
    ELSE [file |-> <<>>, pos |-> 0, total |-> 0]

\* The loop reaches file i: onProgress is told, and analyzeFile calls the
\* provider and awaits it.
StartFile ==
    /\ pc = "loop"
    /\ i <= Len(files)
    /\ ~(tells /\ onProgress = "throws")
    /\ progress' = tell(progress, messageAt(i))
    /\ started' = Append(started, files[i])
    /\ pc' = awaitProvider(i)
    /\ UNCHANGED <<files, projectTitle, format, i, allFunctions, console,
                   calls, results, spec, written, provider, apiKey,
                   fsOps, entry, onProgress>>
    /\ UNCHANGED unitVars

\* The call of the provider settles: analyzeFile goes on to its end, and
\* the loop pushes its functions or warns of its failure.
ProviderSettles(call) ==
    /\ pc = "await"
    /\ LET result == analyzeFile(call)
       IN /\ allFunctions' = pushFunctions(allFunctions, result)
          /\ console' = warnFailure(console, files[i], result)
          /\ i' = nextFile(i, result)
          /\ results' = Append(results, result)
    /\ calls' = Append(calls, call)
    /\ pc' = "loop"
    /\ UNCHANGED <<files, projectTitle, format, progress, spec, written,
                   started, provider, apiKey,
                   fsOps, entry, onProgress>>
    /\ UNCHANGED unitVars

\* The provider answers a text.
ProviderReturns ==
    \E call \in ProviderCalls : ~call.threw /\ ProviderSettles(call)

\* The call of the provider throws.
ProviderThrows ==
    \E call \in ProviderCalls : call.threw /\ ProviderSettles(call)

\* The loop is over: the last message of onProgress, and the Spec.
ReturnSpec ==
    /\ pc = "loop"
    /\ i > Len(files)
    /\ ~(tells /\ onProgress = "throws")
    /\ progress' = tell(progress, messageAt(i))
    /\ spec' = makeSpec(projectTitle, allFunctions)
    /\ pc' = "analyzed"
    /\ UNCHANGED <<files, projectTitle, format, i, allFunctions, console,
                   calls, results, written, started, provider, apiKey,
                   fsOps, entry, onProgress>>
    /\ UNCHANGED unitVars

\* onProgress?.(message) throws: it is called outside the try block of
\* the loop, so analyzeWithStreaming is left with what the callback threw.
ProgressThrows ==
    /\ pc = "loop"
    /\ tells /\ onProgress = "throws"
    /\ progress' = tell(progress, messageAt(i))
    /\ pc' = "rejected"
    /\ UNCHANGED <<files, projectTitle, format, i, allFunctions, console,
                   calls, results, spec, written, started, provider, apiKey,
                   fsOps, entry, onProgress>>
    /\ UNCHANGED unitVars

\* ------------------------------------------------------- HTMLGenerator

UpperCase == <<"A", "B", "C", "D", "E", "F", "G", "H", "I", "J", "K", "L", "M", "N", "O", "P", "Q", "R", "S", "T", "U", "V", "W", "X", "Y", "Z">>
LowerCase == <<"a", "b", "c", "d", "e", "f", "g", "h", "i", "j", "k", "l", "m", "n", "o", "p", "q", "r", "s", "t", "u", "v", "w", "x", "y", "z">>

\* The place of a character in an alphabet, 0 when it is not in it.
PlaceIn(alphabet, c) ==
    LET S == {x \in 1..Len(alphabet) : alphabet[x] = c}
    IN IF S = {} THEN 0 ELSE CHOOSE x \in S : TRUE

\* t.toLowerCase() and t.toUpperCase()
toLowerCase(t) ==
    [x \in 1..Len(t) |->
        IF PlaceIn(UpperCase, t[x]) = 0 THEN t[x] ELSE LowerCase[PlaceIn(UpperCase, t[x])]]
toUpperCase(t) ==
    [x \in 1..Len(t) |->
        IF PlaceIn(LowerCase, t[x]) = 0 THEN t[x] ELSE UpperCase[PlaceIn(LowerCase, t[x])]]

\* t.includes(word)
includes(t, word) == Contains(t, word)

K_default == <<"d", "e", "f", "a", "u", "l", "t">>
K_result == <<"r", "e", "s", "u", "l", "t">>
K_id == <<"i", "d">>
K_name == <<"n", "a", "m", "e">>

\* What getDatabaseOperation returns.
Operation(type, color) == [type |-> type, color |-> color]

\* touches.read && touches.read.length > 0, and the same of write.
hasRead(touches) ==
    Truthy(Get(touches, K_read)) /\ Len(Get(touches, K_read).a) > 0
hasWrite(touches) ==
    Truthy(Get(touches, K_write)) /\ Len(Get(touches, K_write).a) > 0

\* "If we have touches info, use that to determine operation", and the
\* "Default fallback".
operationOfTouches(touches) ==
    IF Truthy(touches) /\ hasWrite(touches) /\ hasRead(touches)
    THEN Operation("READ/WRITE", "post")
    ELSE IF Truthy(touches) /\ hasWrite(touches) THEN Operation("WRITE", "post")
    ELSE Operation("READ", "get")

\* Mutant of getDatabaseOperation: touches is looked at before the name.
operationTouchesFirst(opId, touches) ==
    LET lowerOpId == toLowerCase(opId)
    IN IF Truthy(touches) /\ (hasWrite(touches) \/ hasRead(touches))
       THEN operationOfTouches(touches)
       ELSE IF \/ includes(lowerOpId, <<"c", "r", "e", "a", "t", "e">>)
               \/ includes(lowerOpId, <<"a", "d", "d">>)
               \/ includes(lowerOpId, <<"i", "n", "s", "e", "r", "t">>)
       THEN Operation("CREATE", "post")
       ELSE IF \/ includes(lowerOpId, <<"u", "p", "d", "a", "t", "e">>)
               \/ includes(lowerOpId, <<"e", "d", "i", "t">>)
               \/ includes(lowerOpId, <<"m", "o", "d", "i", "f", "y">>)
       THEN Operation("UPDATE", "put")
       ELSE IF \/ includes(lowerOpId, <<"d", "e", "l", "e", "t", "e">>)
               \/ includes(lowerOpId, <<"r", "e", "m", "o", "v", "e">>)
               \/ includes(lowerOpId, <<"d", "r", "o", "p">>)
       THEN Operation("DELETE", "delete")
       ELSE Operation("READ", "get")

\* Mutant of getDatabaseOperation: the words of reading are looked for
\* first.
operationReadFirst(opId, touches) ==
    LET lowerOpId == toLowerCase(opId)
    IN IF \/ includes(lowerOpId, <<"g", "e", "t">>)
          \/ includes(lowerOpId, <<"f", "i", "n", "d">>)
          \/ includes(lowerOpId, <<"s", "e", "a", "r", "c", "h">>)
          \/ includes(lowerOpId, <<"l", "i", "s", "t">>)
       THEN Operation("READ", "get")
       ELSE IF \/ includes(lowerOpId, <<"c", "r", "e", "a", "t", "e">>)
               \/ includes(lowerOpId, <<"a", "d", "d">>)
               \/ includes(lowerOpId, <<"i", "n", "s", "e", "r", "t">>)
       THEN Operation("CREATE", "post")
       ELSE IF \/ includes(lowerOpId, <<"u", "p", "d", "a", "t", "e">>)
               \/ includes(lowerOpId, <<"e", "d", "i", "t">>)
               \/ includes(lowerOpId, <<"m", "o", "d", "i", "f", "y">>)
       THEN Operation("UPDATE", "put")
       ELSE IF \/ includes(lowerOpId, <<"d", "e", "l", "e", "t", "e">>)
               \/ includes(lowerOpId, <<"r", "e", "m", "o", "v", "e">>)
               \/ includes(lowerOpId, <<"d", "r", "o", "p">>)
       THEN Operation("DELETE", "delete")
       ELSE operationOfTouches(touches)

\* getDatabaseOperation(opId, touches): "Determine primary operation type
\* based on function name", then by touches, then the default.
getDatabaseOperation(opId, touches) ==
    LET lowerOpId == toLowerCase(opId)
    IN IF \/ includes(lowerOpId, <<"c", "r", "e", "a", "t", "e">>)
          \/ includes(lowerOpId, <<"a", "d", "d">>)
          \/ includes(lowerOpId, <<"i", "n", "s", "e", "r", "t">>)
       THEN Operation("CREATE", "post")
       ELSE IF \/ includes(lowerOpId, <<"u", "p", "d", "a", "t", "e">>)
               \/ includes(lowerOpId, <<"e", "d", "i", "t">>)
               \/ includes(lowerOpId, <<"m", "o", "d", "i", "f", "y">>)
       THEN Operation("UPDATE", "put")
       ELSE IF \/ includes(lowerOpId, <<"d", "e", "l", "e", "t", "e">>)
               \/ includes(lowerOpId, <<"r", "e", "m", "o", "v", "e">>)
               \/ includes(lowerOpId, <<"d", "r", "o", "p">>)
       THEN Operation("DELETE", "delete")
       ELSE IF \/ includes(lowerOpId, <<"g", "e", "t">>)
               \/ includes(lowerOpId, <<"f", "i", "n", "d">>)
               \/ includes(lowerOpId, <<"s", "e", "a", "r", "c", "h">>)
               \/ includes(lowerOpId, <<"l", "i", "s", "t">>)
       THEN Operation("READ", "get")
       ELSE operationOfTouches(touches)

\* prop.type === word
typeIs(prop, word) == Get(prop, K_type) = Str(word)

\* The sample value of generateSampleInput for the property key.
sampleInputValue(key, prop) ==
    IF Get(prop, K_default).t # "undefined" THEN Get(prop, K_default)
    ELSE IF typeIs(prop, <<"s", "t", "r", "i", "n", "g">>) THEN Str(<<"e", "x", "a", "m", "p", "l", "e", "_">> \o key)
    ELSE IF typeIs(prop, <<"n", "u", "m", "b", "e", "r">>) \/ typeIs(prop, <<"i", "n", "t", "e", "g", "e", "r">>) THEN Num(1)
    ELSE IF typeIs(prop, <<"b", "o", "o", "l", "e", "a", "n">>) THEN True
    ELSE IF typeIs(prop, <<"a", "r", "r", "a", "y">>) THEN Arr(<<Str(<<"i", "t", "e", "m", "1">>), Str(<<"i", "t", "e", "m", "2">>)>>)
    ELSE Null

\* generateSampleInput(inputSchema), of properties whose values are objects.
generateSampleInput(inputSchema) ==
    LET properties == Get(inputSchema, K_properties)
    IN IF ~Truthy(properties) THEN Obj(<<>>)
       ELSE Obj([x \in 1..Len(properties.o) |->
                    KV(properties.o[x].k,
                       sampleInputValue(properties.o[x].k, properties.o[x].v))])

\* The sample value of generateSampleOutput for the property key.
sampleOutputValue(key, prop) ==
    IF typeIs(prop, <<"s", "t", "r", "i", "n", "g">>) THEN Str(<<"s", "a", "m", "p", "l", "e", "_">> \o key)
    ELSE IF typeIs(prop, <<"n", "u", "m", "b", "e", "r">>) \/ typeIs(prop, <<"i", "n", "t", "e", "g", "e", "r">>) THEN Num(1)
    ELSE IF typeIs(prop, <<"b", "o", "o", "l", "e", "a", "n">>) THEN True
    ELSE IF typeIs(prop, <<"a", "r", "r", "a", "y">>)
    THEN Arr(<<Obj(<<KV(K_id, Num(1)), KV(K_name, Str(<<"i", "t", "e", "m", "1">>))>>)>>)
    ELSE Null

\* The sample of an output schema that has properties.
sampleOfProperties(properties) ==
    Obj([x \in 1..Len(properties.o) |->
            KV(properties.o[x].k,
               sampleOutputValue(properties.o[x].k, properties.o[x].v))])

\* Mutant of generateSampleOutput: no default for a schema without
\* properties.
sampleWithoutDefault(outputSchema) ==
    sampleOfProperties(Get(outputSchema, K_properties))

\* generateSampleOutput(outputSchema), of properties whose values are
\* objects.
generateSampleOutput(outputSchema) ==
    LET properties == Get(outputSchema, K_properties)
    IN IF ~Truthy(properties)
       THEN Obj(<<KV(K_result, Str(<<"s", "u", "c", "c", "e", "s", "s">>))>>)
       ELSE sampleOfProperties(properties)

\* One parameter of generateInputExample.
inputParam(key, prop) ==
    key \o <<":", " ">> \o
        (IF ~Truthy(prop) THEN <<"n", "u", "l", "l">>
         ELSE IF Get(prop, K_default).t # "undefined" THEN Compact(Get(prop, K_default))
         ELSE IF typeIs(prop, <<"s", "t", "r", "i", "n", "g">>) THEN <<"\"", "e", "x", "a", "m", "p", "l", "e", "_">> \o key \o <<"\"">>
         ELSE IF typeIs(prop, <<"n", "u", "m", "b", "e", "r">>) \/ typeIs(prop, <<"i", "n", "t", "e", "g", "e", "r">>) THEN <<"1">>
         ELSE IF typeIs(prop, <<"b", "o", "o", "l", "e", "a", "n">>) THEN <<"t", "r", "u", "e">>
         ELSE IF typeIs(prop, <<"a", "r", "r", "a", "y">>) THEN <<"[", "\"", "i", "t", "e", "m", "1", "\"", ",", " ", "\"", "i", "t", "e", "m", "2", "\"", "]">>
         ELSE <<"n", "u", "l", "l">>)

RECURSIVE joinParams(_, _)
\* params.join(",\n  ") from the x-th property on.
joinParams(members, x) ==
    IF x > Len(members) THEN <<>>
    ELSE inputParam(members[x].k, members[x].v)
         \o (IF x < Len(members) THEN <<",", "\n", " ", " ">> ELSE <<>>)
         \o joinParams(members, x + 1)

\* generateInputExample(func)
generateInputExample(f) ==
    LET properties == Get(Get(f, K_input), K_properties)
    IN IF ~Truthy(Get(f, K_input)) \/ ~Truthy(properties) THEN <<>>
       ELSE <<"{", "\n", " ", " ">> \o joinParams(properties.o, 1) \o <<"\n", "}">>

\* The statement generateDatabaseExample writes per written table.
writeStatement(opId) ==
    LET lowerOpId == toLowerCase(opId)
    IN IF includes(lowerOpId, <<"c", "r", "e", "a", "t", "e">>) \/ includes(lowerOpId, <<"a", "d", "d">>)
       THEN <<"/", "/", " ", "-", " ", "I", "N", "S", "E", "R", "T", " ", "I", "N", "T", "O", " ">>
       ELSE IF includes(lowerOpId, <<"u", "p", "d", "a", "t", "e">>) \/ includes(lowerOpId, <<"e", "d", "i", "t">>)
       THEN <<"/", "/", " ", "-", " ", "U", "P", "D", "A", "T", "E", " ">>
       ELSE IF includes(lowerOpId, <<"d", "e", "l", "e", "t", "e">>) \/ includes(lowerOpId, <<"r", "e", "m", "o", "v", "e">>)
       THEN <<"/", "/", " ", "-", " ", "D", "E", "L", "E", "T", "E", " ", "F", "R", "O", "M", " ">>
       ELSE <<"/", "/", " ", "-", " ", "M", "O", "D", "I", "F", "Y", " ">>

RECURSIVE tableLines(_, _, _)
\* One line per table from the x-th on.
tableLines(statement, tables, x) ==
    IF x > Len(tables) THEN <<>>
    ELSE statement \o tables[x].s \o <<"\n">> \o tableLines(statement, tables, x + 1)

\* generateDatabaseExample(func)
generateDatabaseExample(f) ==
    LET touches == Get(f, K_touches)
        reads ==
            IF Truthy(touches) /\ hasRead(touches)
            THEN <<"/", "/", " ", "R", "e", "a", "d", " ", "o", "p", "e", "r", "a", "t", "i", "o", "n", "s", ":", "\n">> \o tableLines(<<"/", "/", " ", "-", " ", "S", "E", "L", "E", "C", "T", " ", "*", " ", "F", "R", "O", "M", " ">>, Get(touches, K_read).a, 1)
            ELSE <<>>
        writes ==
            IF Truthy(touches) /\ hasWrite(touches)
            THEN (IF reads # <<>> THEN <<"\n">> ELSE <<>>)
                 \o <<"/", "/", " ", "W", "r", "i", "t", "e", " ", "o", "p", "e", "r", "a", "t", "i", "o", "n", "s", ":", "\n">> \o tableLines(writeStatement(Get(f, K_opId).s), Get(touches, K_write).a, 1)
            ELSE <<>>
    IN reads \o writes

\* One example: its title and its code.
Example(title, code) == [title |-> title, code |-> code]

\* createExamples(func)
createExamples(f) ==
    LET opId == Get(f, K_opId).s
    IN <<Example("Function Call",
                 <<"/", "/", " ">> \o opId \o <<"\n", "c", "o", "n", "s", "t", " ", "r", "e", "s", "u", "l", "t", " ", "=", " ", "a", "w", "a", "i", "t", " ">> \o opId \o <<"(">>
                     \o (IF Truthy(Get(f, K_input)) THEN generateInputExample(f) ELSE <<>>)
                     \o <<")", ";">>)>>
       \o (IF Truthy(Get(f, K_input))
           THEN <<Example("Input Parameters",
                          JSONstringify(generateSampleInput(Get(f, K_input))))>>
           ELSE <<>>)
       \o (IF Truthy(Get(f, K_output))
           THEN <<Example("Expected Output",
                          JSONstringify(generateSampleOutput(Get(f, K_output))))>>
           ELSE <<>>)
       \o (IF Truthy(Get(f, K_touches)) /\ generateDatabaseExample(f) # <<>>
           THEN <<Example("Database Operations", generateDatabaseExample(f))>>
           ELSE <<>>)

\* The tables a block of the page lists: those of touches.read or
\* touches.write when touches and the list are there.
listedTables(f, key) ==
    IF Truthy(Get(f, K_touches)) /\ Truthy(Get(Get(f, K_touches), key))
    THEN Get(Get(f, K_touches), key).a
    ELSE <<>>

\* generateFunctionHTML(func), by what the block of the page shows: the
\* operation, the names and texts of the record, the tables, the input
\* schema and the examples.
generateFunctionHTML(f) ==
    [operation |-> getDatabaseOperation(Get(f, K_opId).s, Get(f, K_touches)),
     id |-> Get(f, K_opId).s \o <<"-">> \o Get(f, K_engine).s,
     path |-> Get(f, K_opId).s,
     summary |-> Get(f, K_summary).s,
     engine |-> toUpperCase(Get(f, K_engine).s),
     description |-> Get(f, K_description).s,
     read |-> listedTables(f, K_read),
     write |-> listedTables(f, K_write),
     inputSchema |-> IF Truthy(Get(f, K_input))
                     THEN JSONstringify(Get(f, K_input)) ELSE <<>>,
     examples |-> createExamples(f)]

\* ------------------------------------------------ generateDocumentation

\* generateHTML(spec), by what the page shows: the title and the block of
\* each function, in the order of the Spec.
generateHTML(s) ==
    <<"<html>">> \o Member(Member(s, K_info), K_title).s \o <<"</title>">>
        \o [x \in 1..Len(Member(s, K_functions).a) |->
               generateFunctionHTML(Member(s, K_functions).a[x])]

\* The text of the JSON mode.
renderJson(s) == JSONstringify(s)

\* The output step throws: mkdirSync does, or the writeFileSync of a
\* format that is written.
outputThrows(env, fmt) ==
    env = "mkdirFails" \/ (env = "writeFails" /\ fmt \in Formats)

\* The content of the output file after the if / else if on the format:
\* a format that is neither "html" nor "json" writes nothing.
outputFile(fmt, s, before) ==
    CASE fmt = "html" -> generateHTML(s)
      [] fmt = "json" -> renderJson(s)
      [] OTHER -> before

\* One thing the run does to the file system: what, and to which path
\* ("input", or of the output "outputDir" = dirname(outputPath) and
\* "outputPath" = resolve(output || "docs/index.html")).
FsOp(op, path) == [op |-> op, path |-> path]

\* Mutant of outputOps: the file is written with no directory made.
writeWithoutMkdir(env, fmt) ==
    IF fmt \in Formats /\ env = "ok" THEN <<FsOp("write", "outputPath")>> ELSE <<>>

\* What the output step does to the file system: mkdirSync of the
\* directory of the output path, then the writeFileSync of the format, if
\* it is written; a call that throws has made or written nothing.
outputOps(env, fmt) ==
    IF env = "mkdirFails" THEN <<>>
    ELSE <<FsOp("mkdir", "outputDir")>>
         \o (IF fmt \in Formats /\ env = "ok"
             THEN <<FsOp("write", "outputPath")>>
             ELSE <<>>)

\* "Step 3: Generate output" and "Step 4: Success message"; what is thrown
\* is caught, rethrown and ends the process with "Error:" and exit code 1.
WriteOutput(env) ==
    /\ pc = "analyzed"
    /\ IF outputThrows(env, format)
       THEN /\ written' = written
            /\ console' = Append(console, Line("error", "Error:", Str(<<env>>)))
            /\ pc' = "failed"
       ELSE /\ written' = outputFile(format, spec, written)
            /\ console' = Append(console,
                               Line("log", "Database documentation generated", Str(<<>>)))
            /\ pc' = "done"
    /\ fsOps' = fsOps \o outputOps(env, format)
    /\ UNCHANGED <<files, projectTitle, format, i, allFunctions, progress,
                   calls, results, spec, started, provider, apiKey, entry,
                   onProgress>>
    /\ UNCHANGED unitVars

\* Mutant of credentialsPresent: the provider is not looked at.
providerUnchecked(p, key) == key

\* Mutant of credentialsPresent: the key is not looked at.
keyUnchecked(p, key) == p \in Providers

\* "Check for appropriate API key based on provider": the provider is one
\* of the two and its key is in the environment.
credentialsPresent(p, key) == p \in Providers /\ key

\* The check of the provider and its key: a run that fails it writes the
\* error and ends the process with exit code 1.
CheckProvider ==
    /\ pc = "start"
    /\ IF credentialsPresent(provider, apiKey)
       THEN /\ pc' = "discover"
            /\ console' = console
       ELSE /\ pc' = "exit1"
            /\ console' = Append(console,
                   IF provider \in Providers
                   THEN Line("error", "API key environment variable is required", Str(<<provider>>))
                   ELSE Line("error", "Invalid provider", Str(<<provider>>)))
    /\ UNCHANGED <<files, projectTitle, format, i, allFunctions, progress,
                   calls, results, spec, written, started, provider, apiKey,
                   fsOps, entry, onProgress>>
    /\ UNCHANGED unitVars

\* "Step 1: Discover files": the input path is looked up and its files
\* are read; with no file found the run says so and returns; otherwise
\* analyzeWithStreaming is called with the files.
Discover ==
    /\ pc = "discover"
    /\ IF Len(files) = 0
       THEN /\ pc' = "nothing"
            /\ console' = Append(console,
                               Line("log", "No database functions found", Str(<<>>)))
       ELSE /\ pc' = "loop"
            /\ console' = console
    /\ fsOps' = Append(fsOps, FsOp("read", "input"))
    /\ UNCHANGED <<files, projectTitle, format, i, allFunctions, progress,
                   calls, results, spec, written, started, provider, apiKey,
                   entry, onProgress>>
    /\ UNCHANGED unitVars

\* How a text with no fenced block was put together.
Unfenced == [kind |-> "plain", fenced |-> FALSE, interior |-> <<>>]

\* No discovery is under way.
DiscoveryIdle ==
    /\ root = [isFile |-> FALSE, recursive |-> TRUE]
    /\ onDisk = <<>>
    /\ databaseFiles = <<>>

\* No unit specification is running.
UnitIdle ==
    /\ text = <<>>
    /\ parts = Unfenced
    /\ fixed = <<>>
    /\ handed = <<>>
    /\ candidates = <<>>
    /\ answer = Returned(<<>>, <<>>)
    /\ func = Undefined
    /\ rendered = Undefined
    /\ DiscoveryIdle

\* The first n candidate files.
FirstFiles(n) == [x \in 1..n |-> FileName(x)]

\* generateDocumentation is called: with OpenAI, its key and a format that
\* is written, on up to MaxFiles files; with every other choice of the
\* options, on up to FewFiles files.
Init ==
    /\ pc = "start"
    /\ \/ /\ provider = "openai"
          /\ apiKey = TRUE
          /\ format \in Formats
          /\ projectTitle \in Titles
          /\ \E n \in 0..MaxFiles : files = FirstFiles(n)
       \/ /\ provider \in ProviderOptions
          /\ apiKey \in BOOLEAN
          /\ format \in FormatOptions
          /\ ~(provider = "openai" /\ apiKey /\ format \in Formats)
          /\ projectTitle = <<"a", "p", "p">>
          /\ \E n \in 0..FewFiles : files = FirstFiles(n)
    /\ i = 1
    /\ allFunctions = <<>>
    /\ console = <<>>
    /\ progress = <<>>
    /\ calls = <<>>
    /\ results = <<>>
    /\ spec = Undefined
    /\ written = <<>>
    /\ started = <<>>
    /\ fsOps = <<>>
    /\ entry = "analyzeWithStreaming"
    /\ onProgress = "listens"
    /\ UnitIdle

Next ==
    \/ CheckProvider
    \/ Discover
    \/ StartFile
    \/ ProviderReturns
    \/ ProviderThrows
    \/ ReturnSpec
    \/ \E env \in Disk : WriteOutput(env)

Spec == Init /\ [][Next]_vars

\* The awaited call of the provider settles (it returns or it throws) and
\* the loop is resumed.
Settles == pc = "await" /\ pc' = "loop"

\* The runs in which the loop of analyzeWithStreaming goes on when it can
\* and no call of the provider is awaited for ever.
FairSpec ==
    /\ Init
    /\ [][Next]_vars
    /\ WF_vars(StartFile)
    /\ WF_pc(Settles)
    /\ WF_vars(ReturnSpec)

\* ---------------------------- analyzeFiles and analyzeWithStreaming

\* analyzeFiles, or analyzeWithStreaming with one of the callbacks, is
\* called with up to MaxFiles files.
StreamInit ==
    /\ pc = "loop"
    /\ entry \in Entries
    /\ onProgress \in Callbacks
    /\ entry = "analyzeFiles" => onProgress = "absent"
    /\ \E n \in 0..MaxFiles : files = FirstFiles(n)
    /\ projectTitle = <<"a", "p", "p">>
    /\ format = "json"
    /\ provider = "openai"
    /\ apiKey = TRUE
    /\ i = 1
    /\ allFunctions = <<>>
    /\ console = <<>>
    /\ progress = <<>>
    /\ calls = <<>>
    /\ results = <<>>
    /\ spec = Undefined
    /\ written = <<>>
    /\ started = <<>>
    /\ fsOps = <<>>
    /\ UnitIdle

StreamNext ==
    \/ StartFile
    \/ ProviderReturns
    \/ ProviderThrows
    \/ ReturnSpec
    \/ ProgressThrows

StreamSpec == StreamInit /\ [][StreamNext]_vars

\* ------------------------------------------- analyzeFile, text by text

\* The characters of the short texts.
Alphabet == {"\"", "\\", ",", "[", "]", "a", " "}

\* Every text of at most MaxTextLen characters of the alphabet.
ShortTexts == UNION {[1..n -> Alphabet] : n \in 0..MaxTextLen}

\* What may precede and follow a fenced block, what opens it (the fence,
\* a language tag or none, a line break or none), what it holds and what
\* closes it.
Prefixes == {<<>>, <<"H", "i", ":", "\n">>}
Openings == {FenceJsonLine, Fence \o <<"\n">>, FenceJson, Fence \o <<"j", "s", "\n">>}
Interiors == {<<"[", "]">>, Compact(Arr(<<RecXY>>))}
Closings == {<<"\n">> \o Fence, Fence}
Suffixes == {<<>>, <<"\n", "B", "y", "e">>}

\* The values a field of a raw record may hold.
FieldValues ==
    {Null, Str(<<>>), Str(<<"v">>), Num(0), Num(5), True, Arr(<<>>),
     Arr(<<Str(<<"t">>)>>), Arr(<<Num(5)>>), Obj(<<>>),
     Obj(<<KV(K_type, Num(5))>>),
     Obj(<<KV(K_read, Arr(<<Str(<<"u">>)>>))>>),
     Obj(<<KV(K_type, Str(<<"t">>)), KV(K_properties, Arr(<<>>))>>)}

FieldKeys ==
    {K_opId, K_summary, K_description, K_tags, K_input, K_output, K_engine,
     K_touches}

\* The object without the member key.
Without(obj, key) == Obj(SelectSeq(obj.o, LAMBDA m : m.k # key))

\* RecFull with one field changed or left out, and the other records.
RawRecords ==
    {Obj(SetMember(RecFull.o, key, val)) : key \in FieldKeys, val \in FieldValues}
        \cup {Without(RecFull, key) : key \in FieldKeys}
        \cup {RecFull, RecXY, RecBare, RecBadId}

\* Parsed elements that are no objects.
NonObjects == {Null, Num(5), Str(<<"v">>), Arr(<<>>), True}

\* The elements of the longer parsed arrays.
SmallElements == {RecXY, RecBare, RecBadId, Null, Num(5)}

\* The parsed arrays the model validates.
CandidateArrays ==
    {<<e>> : e \in RawRecords \cup NonObjects}
        \cup UNION {[1..n -> SmallElements] : n \in 0..MaxElems}

\* No run of generateDocumentation is under way.
RunIdle ==
    /\ files = <<>>
    /\ projectTitle = <<>>
    /\ format = "json"
    /\ i = 0
    /\ allFunctions = <<>>
    /\ console = <<>>
    /\ progress = <<>>
    /\ calls = <<>>
    /\ results = <<>>
    /\ spec = Undefined
    /\ written = <<>>
    /\ started = <<>>
    /\ provider = "openai"
    /\ apiKey = TRUE
    /\ fsOps = <<>>
    /\ entry = "analyzeWithStreaming"
    /\ onProgress = "listens"

\* A raw text is at hand: a short text, a text with a fenced block, the
\* text of a parsed array, or the text of one object.
TextInit ==
    /\ pc = "text"
    /\ RunIdle
    /\ DiscoveryIdle
    /\ fixed = <<>>
    /\ handed = <<>>
    /\ answer = Returned(<<>>, <<>>)
    /\ func = Undefined
    /\ rendered = Undefined
    /\ \/ /\ text \in ShortTexts
          /\ parts = Unfenced
          /\ candidates = <<>>
       \/ /\ \E pre \in Prefixes, open \in Openings, body \in Interiors,
                close \in Closings, post \in Suffixes :
                /\ text = pre \o open \o body \o close \o post
                /\ parts = [kind |-> "fenced", fenced |-> TRUE, interior |-> body]
          /\ candidates = <<>>
       \/ /\ candidates \in CandidateArrays
          /\ text = Compact(Arr(candidates))
          /\ parts = [kind |-> "array", fenced |-> FALSE, interior |-> <<>>]
       \/ /\ \E e \in {RecXY, RecBare} :
                /\ candidates = <<e>>
                /\ text = Compact(e)
          /\ parts = [kind |-> "object", fenced |-> FALSE, interior |-> <<>>]

\* fixCommonJsonIssues is applied to the text.
FixText ==
    /\ pc = "text"
    /\ fixed' = fixCommonJsonIssues(text)
    /\ pc' = "fixed"
    /\ UNCHANGED <<text, parts, handed, candidates, answer, func, rendered>>
    /\ UNCHANGED <<root, onDisk, databaseFiles>>
    /\ UNCHANGED runVars

\* analyzeFile runs on the text as the answer of the provider.
AnalyzeText ==
    /\ pc = "text"
    /\ handed' = cleanedJson(text)
    /\ answer' = analyzeResponse(text)
    /\ pc' = "answered"
    /\ UNCHANGED <<text, parts, fixed, candidates, func, rendered>>
    /\ UNCHANGED <<root, onDisk, databaseFiles>>
    /\ UNCHANGED runVars

TextNext == FixText \/ AnalyzeText

TextSpec == TextInit /\ [][TextNext]_vars

\* ------------------------------------ generateFunctionHTML, record by record

\* The opIds of the records the page specification renders.
OpIdSamples ==
    {<<"d", "e", "l", "e", "t", "e", "U", "s", "e", "r">>,
     <<"g", "e", "t", "O", "r", "C", "r", "e", "a", "t", "e">>,
     <<"g", "e", "t", "A", "n", "d", "S", "a", "v", "e">>,
     <<"c", "r", "e", "a", "t", "e", "U", "s", "e", "r">>,
     <<"a", "d", "d", "r", "e", "s", "s">>,
     <<"i", "n", "s", "e", "r", "t", "R", "o", "w">>,
     <<"u", "p", "d", "a", "t", "e", "U", "s", "e", "r">>,
     <<"e", "d", "i", "t", "P", "o", "s", "t">>,
     <<"m", "o", "d", "i", "f", "y", "R", "o", "w">>,
     <<"r", "e", "m", "o", "v", "e", "I", "t", "e", "m">>,
     <<"d", "r", "o", "p", "T", "a", "b", "l", "e">>,
     <<"g", "e", "t", "U", "s", "e", "r">>,
     <<"f", "i", "n", "d", "A", "l", "l">>,
     <<"s", "e", "a", "r", "c", "h", "U", "s", "e", "r", "s">>,
     <<"l", "i", "s", "t", "I", "t", "e", "m", "s">>,
     <<"x", ".", "y">>,
     <<"s", "y", "n", "c">>,
     <<"D", "E", "L", "E", "T", "E", "A", "L", "L">>,
     <<"f", "i", "n", "d", "A", "n", "d", "D", "e", "l", "e", "t", "e">>,
     <<"e", "d", "i", "t", "A", "n", "d", "C", "r", "e", "a", "t", "e">>}

\* The touches, the outputs and the inputs of those records.
TouchSamples ==
    {Undefined, Obj(<<>>),
     Obj(<<KV(K_read, Arr(<<Str(<<"u">>)>>))>>),
     Obj(<<KV(K_write, Arr(<<Str(<<"l">>)>>))>>),
     Obj(<<KV(K_read, Arr(<<Str(<<"u">>)>>)), KV(K_write, Arr(<<Str(<<"l">>)>>))>>),
     Obj(<<KV(K_read, Arr(<<>>)), KV(K_write, Arr(<<Str(<<"l">>)>>))>>),
     Obj(<<KV(K_read, Arr(<<Str(<<"u">>), Str(<<"v">>)>>)), KV(K_write, Arr(<<>>))>>),
     Obj(<<KV(K_read, Arr(<<>>)), KV(K_write, Arr(<<>>))>>)}

OutputSamples ==
    {Undefined,
     Obj(<<KV(K_type, ObjectType)>>),
     Obj(<<KV(K_type, ObjectType), KV(K_properties, Obj(<<>>))>>),
     Obj(<<KV(K_type, ObjectType),
           KV(K_properties,
              Obj(<<KV(K_id, Obj(<<KV(K_type, Str(<<"n", "u", "m", "b", "e", "r">>))>>)),
                    KV(K_name, Obj(<<KV(K_type, Str(<<"s", "t", "r", "i", "n", "g">>))>>)),
                    KV(<<"o">>, Obj(<<KV(K_type, Str(<<"b", "o", "o", "l", "e", "a", "n">>))>>)),
                    KV(<<"r">>, Obj(<<KV(K_type, Str(<<"a", "r", "r", "a", "y">>))>>)),
                    KV(<<"z">>, Obj(<<>>))>>))>>)}

InputSamples ==
    {Undefined,
     Obj(<<KV(K_type, ObjectType), KV(K_properties, Obj(<<>>)), KV(K_required, Arr(<<>>))>>),
     Obj(<<KV(K_type, ObjectType),
           KV(K_properties,
              Obj(<<KV(K_id, Obj(<<KV(K_type, Str(<<"i", "n", "t", "e", "g", "e", "r">>))>>)),
                    KV(K_name, Obj(<<KV(K_type, Str(<<"s", "t", "r", "i", "n", "g">>))>>)),
                    KV(<<"n">>, Obj(<<KV(K_type, Str(<<"n", "u", "m", "b", "e", "r">>)), KV(K_default, Num(5))>>))>>)),
           KV(K_required, Arr(<<Str(K_id)>>))>>)}

\* A record as the schema types it.
PageRecord(opId, inp, out, touches) ==
    Obj(<<KV(K_opId, Str(opId)),
          KV(K_summary, Str(<<"s">>)),
          KV(K_description, Str(<<"d">>)),
          KV(K_tags, Arr(<<>>)),
          KV(K_input, inp),
          KV(K_output, out),
          KV(K_engine, Str(<<"s", "q", "l">>)),
          KV(K_touches, touches)>>)

\* A record is at hand to be rendered.
PageInit ==
    /\ pc = "page"
    /\ RunIdle
    /\ DiscoveryIdle
    /\ text = <<>>
    /\ parts = Unfenced
    /\ fixed = <<>>
    /\ handed = <<>>
    /\ candidates = <<>>
    /\ answer = Returned(<<>>, <<>>)
    /\ \E opId \in OpIdSamples, inp \in InputSamples, out \in OutputSamples,
          touches \in TouchSamples :
          func = PageRecord(opId, inp, out, touches)
    /\ rendered = Undefined

\* generateFunctionHTML renders the record.
RenderFunction ==
    /\ pc = "page"
    /\ rendered' = generateFunctionHTML(func)
    /\ pc' = "rendered"
    /\ UNCHANGED <<text, parts, fixed, handed, candidates, answer, func>>
    /\ UNCHANGED <<root, onDisk, databaseFiles>>
    /\ UNCHANGED runVars

PageNext == RenderFunction

PageSpec == PageInit /\ [][PageNext]_vars

\* -------------------------------------------------------- FileDiscovery

\* "Database function indicators"
DATABASE_KEYWORDS ==
    <<<<"p", "r", "i", "s", "m", "a", ".">>,
      <<"d", "b", ".">>,
      <<"d", "a", "t", "a", "b", "a", "s", "e">>,
      <<"q", "u", "e", "r", "y", "(">>,
      <<"e", "x", "e", "c", "u", "t", "e", "(">>,
      <<"I", "N", "S", "E", "R", "T">>,
      <<"S", "E", "L", "E", "C", "T">>,
      <<"U", "P", "D", "A", "T", "E">>,
      <<"D", "E", "L", "E", "T", "E">>,
      <<"C", "R", "E", "A", "T", "E">>,
      <<"A", "L", "T", "E", "R">>,
      <<"D", "R", "O", "P">>,
      <<"f", "i", "n", "d", "M", "a", "n", "y">>,
      <<"f", "i", "n", "d", "F", "i", "r", "s", "t">>,
      <<"f", "i", "n", "d", "U", "n", "i", "q", "u", "e">>,
      <<"c", "r", "e", "a", "t", "e">>,
      <<"u", "p", "d", "a", "t", "e">>,
      <<"d", "e", "l", "e", "t", "e">>,
      <<"u", "p", "s", "e", "r", "t">>,
      <<"a", "g", "g", "r", "e", "g", "a", "t", "e">>,
      <<"g", "r", "o", "u", "p", "B", "y">>,
      <<"c", "o", "u", "n", "t">>,
      <<"t", "r", "a", "n", "s", "a", "c", "t", "i", "o", "n">>>>

\* "File patterns to scan": the extension of each "**/*.<extension>".
FILE_PATTERNS ==
    <<<<".", "t", "s">>, <<".", "j", "s">>, <<".", "t", "s", "x">>, <<".", "j", "s", "x">>, <<".", "s", "q", "l">>, <<".", "p", "y">>, <<".", "g", "o">>>>

\* "Files to ignore": the directories of the "**/<directory>/**" and the
\* infixes of the "**/*<infix>*".
IGNORE_PATTERNS ==
    [directories |-> {<<"n", "o", "d", "e", "_", "m", "o", "d", "u", "l", "e", "s">>, <<"d", "i", "s", "t">>, <<"b", "u", "i", "l", "d">>, <<".", "n", "e", "x", "t">>, <<"c", "o", "v", "e", "r", "a", "g", "e">>,
                      <<"t", "e", "s", "t">>, <<"t", "e", "s", "t", "s">>, <<"s", "p", "e", "c">>, <<"s", "p", "e", "c", "s">>},
     infixes |-> {<<".", "t", "e", "s", "t", ".">>, <<".", "s", "p", "e", "c", ".">>}]

\* glob(pattern, {cwd, ignore}) over the files under the project root, the
\* paths taken relative to the root: the files of the extension, of the
\* root itself only when the "**/" is taken off the pattern, that no
\* ignore pattern matches.
glob(extension, recursive, disk) ==
    LET baseName(path) == SubSeq(path, lastIndexOf(path, "/") + 1, Len(path))
        ignored(path) ==
            \/ \E d \in IGNORE_PATTERNS.directories :
                   Contains(<<"/">> \o path, <<"/">> \o d \o <<"/">>)
            \/ \E x \in IGNORE_PATTERNS.infixes : Contains(baseName(path), x)
    IN SelectSeq(disk, LAMBDA file :
           /\ endsWith(file.path, extension)
           /\ Len(baseName(file.path)) > Len(extension)
           /\ recursive \/ ~Contains(file.path, <<"/">>)
           /\ ~ignored(file.path))

RECURSIVE findDatabaseFiles(_, _, _, _)
\* findDatabaseFiles(options): what glob finds for the x-th pattern and
\* the later ones, after allFiles, with no file twice.
findDatabaseFiles(recursive, disk, x, allFiles) ==
    IF x > Len(FILE_PATTERNS) THEN allFiles
    ELSE findDatabaseFiles(recursive, disk, x + 1,
             allFiles \o SelectSeq(glob(FILE_PATTERNS[x], recursive, disk),
                             LAMBDA file : \A y \in 1..Len(allFiles) : allFiles[y] # file))

\* The character of t at index x, "" outside of t.
charAt(t, x) == IF x >= 1 /\ x <= Len(t) THEN t[x] ELSE ""

\* \w in a lower-cased text
isWordChar(c) == PlaceIn(LowerCase, c) # 0 \/ IsDigit(c) \/ c = "_"

\* The index after the literal word at index x of t, 0 when it is not there.
afterLiteral(t, word, x) == IF x >= 1 /\ MatchAt(t, word, x) THEN x + Len(word) ELSE 0

\* The index after \s+ at index x of t, 0 when no whitespace is there.
afterSpaces(t, x) == IF x >= 1 /\ IsWs(charAt(t, x)) THEN SkipWs(t, x) ELSE 0

\* The index after (async\s+)? at index x of t.
afterAsync(t, x) ==
    LET y == afterSpaces(t, afterLiteral(t, <<"a", "s", "y", "n", "c">>, x))
    IN IF y # 0 THEN y ELSE x

\* The index after \w+ at index x of t, 0 when no word character is there.
afterWord(t, x) ==
    LET ends == SelectSeq(Indexes(t), LAMBDA y : y > x /\ ~isWordChar(t[y]))
    IN IF ~isWordChar(charAt(t, x)) THEN 0
       ELSE IF ends = <<>> THEN Len(t) + 1 ELSE ends[1]

\* The index after function\s+\w+.*\{ at index x of t: after the first
\* brace on the line of the name, 0 when there is none.
afterFunctionHead(t, x) ==
    LET name == afterSpaces(t, afterLiteral(t, <<"f", "u", "n", "c", "t", "i", "o", "n">>, x))
        brace == IndexFrom(t, <<"{">>, name + 1)
        lineEnd == IndexFrom(t, <<"\n">>, name + 1)
    IN IF name = 0 THEN 0
       ELSE IF ~isWordChar(charAt(t, name)) \/ brace = 0 THEN 0
       ELSE IF lineEnd # 0 /\ lineEnd < brace THEN 0
       ELSE brace + 1

\* The index after const\s+\w+\s*=\s*(async\s+)?\([^)]*\)\s*=>\s*\{ at
\* index x of t, 0 when it is not there.
afterArrowHead(t, x) ==
    LET name == afterWord(t, afterSpaces(t, afterLiteral(t, <<"c", "o", "n", "s", "t">>, x)))
        equals == IF name = 0 THEN 0 ELSE afterLiteral(t, <<"=">>, SkipWs(t, name))
        open == IF equals = 0 THEN 0
                ELSE afterLiteral(t, <<"(">>, afterAsync(t, SkipWs(t, equals)))
        close == IF open = 0 THEN 0 ELSE IndexFrom(t, <<")">>, open)
        to == IF close = 0 THEN 0 ELSE afterLiteral(t, <<"=", ">">>, SkipWs(t, close + 1))
    IN IF to = 0 THEN 0 ELSE afterLiteral(t, <<"{">>, SkipWs(t, to))

\* [\s\S]*?(word|...) matches at index x of t.
bodyHolds(t, x, words) == x # 0 /\ \E w \in words : IndexFrom(t, w, x) # 0

\* hasDatabaseFunctionPatterns(content): one of the four patterns matches.
\* The patterns ignore case, so they are matched in the lower-cased text.
hasDatabaseFunctionPatterns(content) ==
    LET t == toLowerCase(content)
        clients == {<<"p", "r", "i", "s", "m", "a">>, <<"d", "b">>, <<"d", "a", "t", "a", "b", "a", "s", "e">>, <<"q", "u", "e", "r", "y">>, <<"e", "x", "e", "c", "u", "t", "e">>}
        methods == {<<"f", "i", "n", "d", "m", "a", "n", "y">>, <<"f", "i", "n", "d", "f", "i", "r", "s", "t">>, <<"c", "r", "e", "a", "t", "e">>, <<"u", "p", "d", "a", "t", "e">>, <<"d", "e", "l", "e", "t", "e">>}
        verbs == {<<"s", "e", "l", "e", "c", "t">>, <<"i", "n", "s", "e", "r", "t">>, <<"u", "p", "d", "a", "t", "e">>, <<"d", "e", "l", "e", "t", "e">>, <<"c", "r", "e", "a", "t", "e">>}
    IN \E x \in 1..Len(t) :
           \/ LET exported == afterFunctionHead(t,
                                  afterAsync(t, afterSpaces(t, afterLiteral(t, <<"e", "x", "p", "o", "r", "t">>, x))))
              IN bodyHolds(t, exported, clients) \/ bodyHolds(t, exported, methods)
           \/ bodyHolds(t, afterArrowHead(t, x), clients)
           \/ bodyHolds(t, afterFunctionHead(t, afterSpaces(t, afterLiteral(t, <<"a", "s", "y", "n", "c">>, x))),
                        verbs)

\* Mutant of hasDatabaseOperations: the keywords alone decide.
keywordsOnly(content) ==
    \E x \in 1..Len(DATABASE_KEYWORDS) :
        includes(toLowerCase(content), toLowerCase(DATABASE_KEYWORDS[x]))

\* hasDatabaseOperations(content)
hasDatabaseOperations(content) ==
    LET lowerContent == toLowerCase(content)
        hasKeywords ==
            \E x \in 1..Len(DATABASE_KEYWORDS) :
                includes(lowerContent, toLowerCase(DATABASE_KEYWORDS[x]))
        hasFunctionDefinitions == hasDatabaseFunctionPatterns(content)
    IN hasKeywords \/ hasFunctionDefinitions

\* FileDiscovery.analyzeFile(filePath): the result for a file that is
\* read; readFileSync throwing makes it throw "Failed to read file".
\* fileName is the path relative to the project root.
discoveryAnalyzeFile(file, fileName) ==
    IF ~file.readable
    THEN [threw |-> TRUE, filePath |-> file.path]
    ELSE [threw |-> FALSE,
          filePath |-> file.path,
          fileName |-> fileName,
          content |-> file.content,
          hasDatabaseFunctions |-> hasDatabaseOperations(file.content)]

\* FileDiscovery.analyzeFiles(filePaths): the results of the files read,
\* and a warning for each file that is not.
discoveryAnalyzeFiles(filePaths) ==
    LET analyzed == [x \in 1..Len(filePaths) |->
                        discoveryAnalyzeFile(filePaths[x], filePaths[x].path)]
    IN [results |-> SelectSeq(analyzed, LAMBDA r : ~r.threw),
        warnings |-> [x \in 1..Len(SelectSeq(analyzed, LAMBDA r : r.threw)) |->
                         Line("warn", "Warning: Failed to read file",
                              Str(SelectSeq(analyzed, LAMBDA r : r.threw)[x].filePath))]]

\* discoverDatabaseFiles(options)
discoverDatabaseFiles(recursive, disk) ==
    LET analysisResults == discoveryAnalyzeFiles(findDatabaseFiles(recursive, disk, 1, <<>>))
    IN [results |-> SelectSeq(analysisResults.results, LAMBDA r : r.hasDatabaseFunctions),
        warnings |-> analysisResults.warnings]

\* "Step 1: Discover files", "Directory provided": the files discovery
\* returns, and its warnings on the console.
DiscoverDirectory ==
    /\ pc = "discovery"
    /\ ~root.isFile
    /\ LET found == discoverDatabaseFiles(root.recursive, onDisk)
       IN /\ databaseFiles' = found.results
          /\ console' = console \o found.warnings
    /\ pc' = "discovered"
    /\ UNCHANGED <<files, projectTitle, format, i, allFunctions, progress,
                   calls, results, spec, written, started, provider, apiKey,
                   fsOps, entry, onProgress>>
    /\ UNCHANGED <<text, parts, fixed, handed, candidates, answer, func,
                   rendered, root, onDisk>>

\* "Step 1: Discover files", "Single file provided": the input is a file
\* (the first on the disk of the model); what analyzeFile throws is
\* caught, rethrown and ends the process with "Error:" and exit code 1.
DiscoverFile ==
    /\ pc = "discovery"
    /\ root.isFile
    /\ LET result == discoveryAnalyzeFile(onDisk[1], <<>>)
       IN IF result.threw
          THEN /\ databaseFiles' = databaseFiles
               /\ console' = Append(console,
                      Line("error", "Error:", Str(<<"F", "a", "i", "l", "e", "d", " ", "t", "o", " ", "r", "e", "a", "d", " ", "f", "i", "l", "e">>)))
               /\ pc' = "failed"
          ELSE /\ databaseFiles' = IF result.hasDatabaseFunctions THEN <<result>> ELSE <<>>
               /\ console' = console
               /\ pc' = "discovered"
    /\ UNCHANGED <<files, projectTitle, format, i, allFunctions, progress,
                   calls, results, spec, written, started, provider, apiKey,
                   fsOps, entry, onProgress>>
    /\ UNCHANGED <<text, parts, fixed, handed, candidates, answer, func,
                   rendered, root, onDisk>>

\* The most files under the input path.
MaxOnDisk == 3

\* The paths of the files on the disk, relative to the input path.
DiskPaths ==
    <<<<"a", ".", "t", "s">>, <<"l", "i", "b", "/", "b", ".", "s", "q", "l">>, <<"n", "o", "d", "e", "_", "m", "o", "d", "u", "l", "e", "s", "/", "c", ".", "j", "s">>, <<"d", ".", "m", "d">>, <<"e", ".", "t", "e", "s", "t", ".", "t", "s">>,
      <<"s", "r", "c", "/", "f", ".", "p", "y">>>>

\* The contents of the files that can be read.
Contents ==
    {<<"l", "e", "t", " ", "x", " ", "=", " ", "1", ";">>,
     <<"S", "E", "L", "E", "C", "T", " ", "1">>,
     <<"r", "e", "C", "O", "U", "N", "T">>,
     <<"e", "x", "p", "o", "r", "t", " ", "f", "u", "n", "c", "t", "i", "o", "n", " ", "f", "(", ")", " ", "{", " ", "d", "b", " ", "}">>,
     <<"e", "x", "p", "o", "r", "t", " ", "f", "u", "n", "c", "t", "i", "o", "n", " ", "f", "(", ")", "\n", "{", " ", "d", "b", " ", "}">>,
     <<"c", "o", "n", "s", "t", " ", "f", " ", "=", " ", "a", "s", "y", "n", "c", " ", "(", ")", " ", "=", ">", " ", "{", " ", "q", "u", "e", "r", "y", " ", "}">>,
     <<"E", "x", "p", "o", "r", "t", " ", " ", "A", "s", "y", "n", "c", " ", "f", "u", "n", "c", "t", "i", "o", "n", " ", "g", "(", "a", ")", "{", " ", "x", ".", "e", "x", "e", "c", "u", "t", "e", " ", "}">>}

\* What a file on the disk may be: one that cannot be read, or one with
\* one of the contents.
DiskFiles(path) ==
    {[path |-> path, readable |-> FALSE, content |-> <<>>]}
        \cup {[path |-> path, readable |-> TRUE, content |-> c] : c \in Contents}

\* The input path is a directory with up to MaxOnDisk files, searched with
\* or without its subdirectories, or one file.
DiscoveryInit ==
    /\ pc = "discovery"
    /\ RunIdle
    /\ text = <<>>
    /\ parts = Unfenced
    /\ fixed = <<>>
    /\ handed = <<>>
    /\ candidates = <<>>
    /\ answer = Returned(<<>>, <<>>)
    /\ func = Undefined
    /\ rendered = Undefined
    /\ databaseFiles = <<>>
    /\ \/ /\ root \in [isFile : {FALSE}, recursive : BOOLEAN]
          /\ \E n \in 0..MaxOnDisk :
                 onDisk \in {d \in [1..n -> UNION {DiskFiles(DiskPaths[x]) : x \in 1..n}] :
                                \A x \in 1..n : d[x].path = DiskPaths[x]}
       \/ /\ root = [isFile |-> TRUE, recursive |-> TRUE]
          /\ \E x \in 1..MaxOnDisk : \E file \in DiskFiles(DiskPaths[x]) : onDisk = <<file>>

DiscoveryNext == DiscoverDirectory \/ DiscoverFile

DiscoverySpec == DiscoveryInit /\ [][DiscoveryNext]_vars

\* ================================================================ claims

RECURSIVE Flatten(_, _)
\* The functions of the answers from index k on that returned, in order.
Flatten(answers, k) ==
    IF k > Len(answers) THEN <<>>
    ELSE (IF answers[k].threw THEN <<>> ELSE answers[k].functions)
         \o Flatten(answers, k + 1)

\* The opIds of a sequence of records.
OpIds(functions) == [x \in 1..Len(functions) |-> Member(functions[x], K_opId).s]

\* The files the console warns of having failed, in the order of the
\* warnings.
FailureWarnings ==
    LET lines == SelectSeq(console, LAMBDA l : l.msg = "Failed to analyze")
    IN [x \in 1..Len(lines) |-> lines[x].about.s]

\* The files processed so far whose analyzeFile threw, in order.
FailedFiles ==
    LET failed == SelectSeq(Indexes(results), LAMBDA x : results[x].threw)
    IN [x \in 1..Len(failed) |-> files[failed[x]]]

RunOver == pc \in {"analyzed", "done", "failed"}

\* C1: per-file failure isolation.  Whatever subset of the files fails (the
\* provider throws, or the answer cannot be parsed), every file of the list
\* is attempted, the records accumulated are exactly those of the files
\* that did not fail, and the console warns of each failing file by name,
\* once.
C1_FailureIsolation ==
    /\ Len(results) = Len(calls)
    /\ RunOver => Len(calls) = Len(files)
    /\ \A k \in 1..Len(calls) :
          /\ calls[k].threw => results[k].threw
          /\ calls[k].raw = Garbage /\ ~calls[k].threw => results[k].threw
          /\ results[k].threw => results[k].functions = <<>>
    /\ allFunctions = Flatten(results, 1)
    /\ FailureWarnings = FailedFiles

\* C1 witness: the run is over, the provider threw for file 2 of 3, and
\* the records of files 1 and 3 are there.
C1_Witness ==
    /\ pc = "done"
    /\ Len(files) = 3
    /\ calls[2].threw
    /\ ~results[1].threw /\ results[1].functions # <<>>
    /\ ~results[3].threw /\ results[3].functions # <<>>
    /\ allFunctions = results[1].functions \o results[3].functions
    /\ FailureWarnings = <<files[2]>>

\* C2: Spec.functions is the concatenation, in file-processing order, of
\* each file's validated records in the order of the model response;
\* nothing is sorted, and records of different files with the same opId
\* are all kept.
C2_FunctionsInOrder ==
    RunOver =>
        /\ Member(spec, K_functions).a = Flatten(results, 1)
        /\ \A k \in 1..Len(calls) :
              calls[k].raw = MixedResponse /\ ~calls[k].threw =>
                  OpIds(results[k].functions) = <<<<"x", ".", "y">>, <<"g">>>>

\* C2 witness: the Spec holds the records of two files, the second file's
\* response came first in no order but that of processing, and an opId
\* occurs twice.
C2_Witness ==
    /\ pc = "done"
    /\ Len(files) = 2
    /\ calls[1].raw = MixedResponse
    /\ calls[2].raw = Responses[1]
    /\ OpIds(Member(spec, K_functions).a)
           = <<<<"x", ".", "y">>, <<"g">>, <<"x", ".", "y">>>>

\* The record the text of Scenario B stands for, validated.
ValidXY ==
    Obj(<<KV(K_opId, Str(<<"x", ".", "y">>)),
          KV(K_summary, Str(<<"s">>)),
          KV(K_description, Str(<<"d">>)),
          KV(K_tags, Arr(<<>>)),
          KV(K_input, Undefined),
          KV(K_output, Undefined),
          KV(K_engine, Str(<<"s", "q", "l">>)),
          KV(K_touches, Obj(<<>>))>>)

\* analyzeFile returned exactly one record: opId "x.y", engine "sql", input
\* and output absent.
RecoversXY(result) ==
    /\ ~result.threw
    /\ Len(result.functions) = 1
    /\ Member(result.functions[1], K_opId) = Str(<<"x", ".", "y">>)
    /\ Member(result.functions[1], K_engine) = Str(<<"s", "q", "l">>)
    /\ Member(result.functions[1], K_input).t = "undefined"
    /\ Member(result.functions[1], K_output).t = "undefined"

\* C9 as claimed: the text of Scenario B, a fenced array whose closing
\* bracket is missing, is recovered by analyzeFile into exactly one valid
\* record with opId "x.y", engine "sql", input and output absent.
C9_ScenarioBRecovered ==
    \A k \in 1..Len(calls) :
        ~calls[k].threw /\ calls[k].raw = ScenarioB => RecoversXY(results[k])

\* C9 as amended: the fenced array with its closing bracket is turned into
\* exactly that one record; the text of Scenario B, whose closing bracket
\* is missing, is not repaired: analyzeFile throws, the file contributes no
\* record and is warned of.
C9_CompleteArrayRecovered ==
    \A k \in 1..Len(calls) :
        /\ ~calls[k].threw /\ calls[k].raw = ScenarioBComplete =>
              RecoversXY(results[k]) /\ results[k].functions = <<ValidXY>>
        /\ ~calls[k].threw /\ calls[k].raw = ScenarioB =>
              /\ results[k].threw
              /\ results[k].functions = <<>>
              /\ \E x \in 1..Len(FailureWarnings) : FailureWarnings[x] = files[k]

\* C9 witness: one file was answered with the text of Scenario B and
\* another with the complete array, whose record is in the Spec.
C9_Witness ==
    /\ pc = "done"
    /\ Len(calls) >= 2
    /\ calls[1].raw = ScenarioB /\ ~calls[1].threw
    /\ calls[2].raw = ScenarioBComplete /\ ~calls[2].threw
    /\ \E x \in 1..Len(allFunctions) : allFunctions[x] = ValidXY

RECURSIVE Defined(_)
\* The value without the members whose value is undefined: what the value
\* is structurally.
Defined(v) ==
    CASE v.t = "arr" -> Arr([x \in 1..Len(v.a) |-> Defined(v.a[x])])
      [] v.t = "obj" ->
            Obj([x \in 1..Len(Written(v.o)) |->
                    KV(Written(v.o)[x].k, Defined(Written(v.o)[x].v))])
      [] OTHER -> v

\* C10: the artifact of the json mode, parsed back, is structurally equal
\* to the Spec: same version, same title, same functions in the same
\* order.
C10_JsonRoundTrip ==
    pc = "done" /\ format = "json" =>
        LET back == JSONparse(written)
        IN /\ back.ok
           /\ back.v = Defined(spec)
           /\ Member(back.v, K_version) = Member(spec, K_version)
           /\ Member(Member(back.v, K_info), K_title) = Str(projectTitle)
           /\ OpIds(Member(back.v, K_functions).a) = OpIds(allFunctions)

\* C10 witness: a Spec of several functions was written in json mode, one
\* function with no input and one with quotes in its description.
C10_Witness ==
    /\ pc = "done"
    /\ format = "json"
    /\ Len(allFunctions) >= 3
    /\ \E x \in 1..Len(allFunctions) : Member(allFunctions[x], K_input).t = "undefined"
    /\ \E x \in 1..Len(allFunctions) : allFunctions[x] = schemaParse(normalizeFunction(RecFull))

\* The two console.error lines analyzeFile writes of a text it could not
\* parse.
Diagnostic(cleanJson) ==
    <<Line("error", "Raw AI response for debugging", Str(<<>>)),
      Line("error", "excerpt", Str(cleanJson \o <<".", ".", ".">>))>>

\* C3 as claimed: analyzeFile never throws for malformed input: of a raw
\* text that cannot be turned into parseable JSON it returns no record,
\* together with a diagnostic.
C3_NeverThrows ==
    pc = "answered" /\ ~JSONparse(handed).ok =>
        /\ ~answer.threw
        /\ answer.functions = <<>>
        /\ answer.log # <<>>

\* C3 as amended: of a raw text that cannot be turned into parseable JSON
\* analyzeFile writes the diagnostic (the cleaned text, on console.error)
\* and throws "Analysis failed"; it returns no record.  (The throw is
\* caught one level up, at the file boundary: C1.)
C3_ThrowsAnalysisFailed ==
    pc = "answered" /\ ~JSONparse(handed).ok =>
        /\ answer.threw
        /\ answer.functions = <<>>
        /\ answer.log = Diagnostic(handed)

\* C3 witness: analyzeFile has run on an array whose string is not closed,
\* which the repair leaves as it is.
C3_Witness ==
    /\ pc = "answered"
    /\ text = <<"[", "\"", "a">>
    /\ handed = text
    /\ answer.threw

\* An element analyzeFile can validate: it is not null and, normalized, it
\* passes the schema.
IsValid(e) == e.t # "null" /\ DatabaseFunctionSchema(normalizeFunction(e))

\* The valid elements of a parsed array, validated, in their order.
ValidSubsequence(elems) ==
    LET valid == SelectSeq(elems, IsValid)
    IN [x \in 1..Len(valid) |-> schemaParse(normalizeFunction(valid[x]))]

\* C4 as claimed: of a parsed array in which some elements violate the
\* schema, analyzeFile returns exactly the valid elements, in their order;
\* every invalid element is dropped on its own, with one diagnostic.
C4_ValidSubsequence ==
    pc = "answered" /\ parts.kind = "array" =>
        /\ ~answer.threw
        /\ answer.functions = ValidSubsequence(candidates)
        /\ Len(answer.log) = Len(candidates) - Len(ValidSubsequence(candidates))

\* The type a field of a record has to have.
IsStringArray(v) == v.t = "arr" /\ \A x \in 1..Len(v.a) : v.a[x].t = "str"

\* C5: every returned record has opId, summary, description and engine as
\* strings and tags as an array of strings; of a raw record without
\* summary or description the record has the empty string, without tags
\* (or with tags that are no array) the empty array, without engine
\* "unknown".
C5_RequiredFields ==
    pc = "answered" =>
        /\ \A x \in 1..Len(answer.functions) :
              LET f == answer.functions[x]
              IN /\ \A key \in {K_opId, K_summary, K_description, K_engine} :
                        HasKey(f, key) /\ Member(f, key).t = "str"
                 /\ HasKey(f, K_tags) /\ IsStringArray(Member(f, K_tags))
        /\ Len(candidates) = 1 /\ Len(answer.functions) = 1 =>
              LET raw == candidates[1]
                  f == answer.functions[1]
              IN /\ ~HasKey(raw, K_summary) => Member(f, K_summary) = Str(<<>>)
                 /\ ~HasKey(raw, K_description) => Member(f, K_description) = Str(<<>>)
                 /\ Get(raw, K_tags).t # "arr" => Member(f, K_tags) = Arr(<<>>)
                 /\ ~HasKey(raw, K_engine) => Member(f, K_engine) = Unknown

\* C5 witness: a raw record with an opId alone (and empty input and
\* output) was validated into a record with the defaults.
C5_Witness ==
    /\ pc = "answered"
    /\ candidates = <<RecBare>>
    /\ Len(answer.functions) = 1
    /\ Member(answer.functions[1], K_opId) = Str(<<"g">>)
    /\ Member(answer.functions[1], K_summary) = Str(<<>>)
    /\ Member(answer.functions[1], K_tags) = Arr(<<>>)
    /\ Member(answer.functions[1], K_engine) = Unknown

\* The raw record supplies no data, or an empty object, for the field.
SuppliesNothing(raw, key) == ~HasKey(raw, key) \/ Get(raw, key) = Obj(<<>>)

\* C6 as claimed: in a validated record input, output and touches are
\* present only if the raw record supplied non-empty data: a field the raw
\* record omits, or gives as an empty object, is absent.
C6_AbsentUnlessSupplied ==
    pc = "answered" /\ Len(candidates) = 1 /\ Len(answer.functions) = 1 =>
        \A key \in {K_input, K_output, K_touches} :
            SuppliesNothing(candidates[1], key) =>
                Member(answer.functions[1], key).t = "undefined"

\* C6 as amended: input and output are absent exactly when the raw value
\* is falsy (omitted, null, "", 0, false); an empty object given as input
\* or output yields the present default object; touches is always present,
\* as the empty object when the raw value is falsy.
C6_OptionalFields ==
    pc = "answered" =>
        /\ \A x \in 1..Len(answer.functions) :
              Member(answer.functions[x], K_touches).t = "obj"
        /\ Len(candidates) = 1 /\ Len(answer.functions) = 1 =>
              LET raw == candidates[1]
                  f == answer.functions[1]
              IN /\ \A key \in {K_input, K_output} :
                        Member(f, key).t = "undefined" <=> ~Truthy(Get(raw, key))
                 /\ Get(raw, K_input) = Obj(<<>>) =>
                        Member(f, K_input) =
                            Obj(<<KV(K_type, ObjectType),
                                  KV(K_properties, Obj(<<>>)),
                                  KV(K_required, Arr(<<>>))>>)
                 /\ Get(raw, K_output) = Obj(<<>>) =>
                        Member(f, K_output) =
                            Obj(<<KV(K_type, ObjectType),
                                  KV(K_properties, Obj(<<>>))>>)
                 /\ ~Truthy(Get(raw, K_touches)) => Member(f, K_touches) = Obj(<<>>)

\* C6 witness: a raw record with an empty input, an empty output and no
\* touches was validated: input, output and touches are present.
C6_Witness ==
    /\ pc = "answered"
    /\ candidates = <<RecBare>>
    /\ Len(answer.functions) = 1
    /\ Member(answer.functions[1], K_input).t = "obj"
    /\ Member(answer.functions[1], K_output).t = "obj"
    /\ Member(answer.functions[1], K_touches) = Obj(<<>>)

RECURSIVE BackslashRun(_, _)
\* The number of backslashes in a row that end at index q.
BackslashRun(t, q) ==
    IF q >= 1 /\ t[q] = "\\" THEN 1 + BackslashRun(t, q - 1) ELSE 0

\* The indexes of the quotes of a text that no backslash escapes.
UnescapedQuoteIndexes(t) ==
    SelectSeq(Indexes(t), LAMBDA q : t[q] = "\"" /\ BackslashRun(t, q - 1) % 2 = 0)

\* The text with a quote put in right after its last quote.
ClosedAfterLastQuote(t) ==
    LET l == lastIndexOf(t, "\"")
    IN SubSeq(t, 1, l) \o <<"\"">> \o SubSeq(t, l + 1, Len(t))

\* C7 as claimed: of a text with an odd count of unescaped quotes whose
\* final quote opens a string, fixCommonJsonIssues adds exactly one quote,
\* right after the final quote, and the result is parseable JSON; when the
\* final quote closes a string no quote is added.
C7_QuoteBalanceRepair ==
    pc = "fixed" =>
        LET open == UnescapedQuoteIndexes(text)
            finalIsUnescaped ==
                open # <<>> /\ open[Len(open)] = lastIndexOf(text, "\"")
        IN /\ finalIsUnescaped /\ Len(open) % 2 = 1 =>
                 /\ fixed = ClosedAfterLastQuote(removeTrailingCommas(text))
                 /\ JSONparse(fixed).ok
           /\ finalIsUnescaped /\ Len(open) % 2 = 0 =>
                 fixed = removeTrailingCommas(text)

\* C8 as claimed: of a raw text with a fenced block, with or without a
\* language tag and with or without text around the block, the text handed
\* to JSON.parse is only the interior of the block and holds no fence; a
\* text without a fenced block is handed over as it is.
C8_FenceStripping ==
    pc = "answered" =>
        /\ parts.fenced => handed = parts.interior /\ ~Contains(handed, Fence)
        /\ parts.kind \in {"array", "object"} => handed = text

\* The number of calls of the provider that were made and have not settled.
InFlight == Len(started) - Len(calls)

\* C11: at most one call of the provider is in flight at any time; while
\* the call for a file is in flight the calls for all files before it
\* have settled and their records are in the accumulated functions, and
\* the calls are made in the order of the files.
C11_OneCallInFlight ==
    /\ InFlight \in {0, 1}
    /\ InFlight = 1 <=> pc = "await"
    /\ Len(results) = Len(calls)
    /\ started = SubSeq(files, 1, Len(started))
    /\ InFlight = 1 =>
          /\ Len(calls) = Len(started) - 1
          /\ allFunctions = Flatten(results, 1)

\* C11 witness: the call for the second file is in flight, the call for
\* the first has returned and its records are accumulated.
C11_Witness ==
    /\ pc = "await"
    /\ Len(started) = 2
    /\ Len(calls) = 1
    /\ ~results[1].threw
    /\ results[1].functions # <<>>
    /\ allFunctions = results[1].functions

\* C12: the provider is called once per candidate file: no file is called
\* twice, a file whose call threw or whose response was rejected is not
\* called again, and a run that is over has called every file once.
C12_OneCallPerFile ==
    /\ \A a, b \in 1..Len(started) : a # b => started[a] # started[b]
    /\ Len(started) <= Len(files)
    /\ RunOver => started = files /\ Len(calls) = Len(files)

\* C12 witness: a run of three files is over; the call of the first threw
\* and the response of the second was rejected, and each file was called
\* once.
C12_Witness ==
    /\ pc = "done"
    /\ Len(files) = 3
    /\ calls[1].threw
    /\ ~calls[2].threw /\ results[2].threw
    /\ started = files

\* The messages of onProgress that name a file.
FileMessages == SelectSeq(progress, LAMBDA m : m.file # <<>>)

\* C13: for a run over n files onProgress gets, per file and before its
\* call of the provider settles, one message with the name of the file and
\* its position i/n, after file i-1 is done; the positions are 1..n in
\* increasing order, also when earlier files failed.
C13_ProgressPerFile ==
    /\ Len(FileMessages) = Len(started)
    /\ \A k \in 1..Len(FileMessages) :
          FileMessages[k] = [file |-> files[k], pos |-> k, total |-> Len(files)]
    /\ pc = "await" =>
          /\ progress[Len(progress)].pos = Len(calls) + 1
          /\ progress[Len(progress)].file = files[Len(calls) + 1]
    /\ RunOver => Len(FileMessages) = Len(files)

\* C13 witness: a run of three files whose first two files failed is over
\* and the third message is that of file 3 of 3.
C13_Witness ==
    /\ pc = "done"
    /\ Len(files) = 3
    /\ results[1].threw /\ results[2].threw /\ ~results[3].threw
    /\ Len(FileMessages) = 3
    /\ FileMessages[3].pos = 3 /\ FileMessages[3].total = 3

\* The provider is one the program knows and its key is in the environment.
PreconditionOk == provider \in {"openai", "gemini"} /\ apiKey = TRUE

\* The run has ended: with exit code 1 before any file, after the notice
\* of no file, with the success message, or with an error thrown.
Ended == pc \in {"exit1", "nothing", "done", "failed"}

\* The run has ended with an error.
RunFailed == pc \in {"exit1", "failed"}

\* Every file was processed and failed; some file was processed and did not.
AllFailed ==
    /\ files # <<>>
    /\ Len(results) = Len(files)
    /\ \A k \in 1..Len(results) : results[k].threw
SomeSucceeded == \E k \in 1..Len(results) : ~results[k].threw

\* How often the console says msg.
Says(msg) == Len(SelectSeq(console, LAMBDA l : l.msg = msg))

C15_NothingFoundNotice ==
    Ended /\ PreconditionOk /\ pc # "failed" /\ (files = <<>> \/ AllFailed) =>
        /\ ~RunFailed
        /\ allFunctions = <<>>
        /\ Says("No database functions found") = 1

\* C16 as claimed: a failure of a provider call that indicates missing or
\* invalid credentials and comes before any successful call aborts the
\* run: no further file is called and the run does not end in success;
\* every other failure is recovered at the file boundary.
C16_CredentialFailureAborts ==
    \A k \in 1..Len(calls) :
        IF /\ calls[k].threw
           /\ calls[k].error = "auth"
           /\ \A j \in 1..(k - 1) : calls[j].threw
        THEN Len(started) <= k /\ pc \notin {"loop", "await", "analyzed", "done"}
        ELSE calls[k].threw => results[k].threw /\ results[k].functions = <<>>

\* C17 as claimed: when the format is neither "html" nor "json", or the
\* output cannot be written, the run aborts with an error, reports no
\* success and writes nothing.
C17_RenderErrorsFatal ==
    /\ pc \in {"done", "failed"} /\ format \notin {"html", "json"} =>
          /\ pc = "failed"
          /\ Says("Database documentation generated") = 0
          /\ written = <<>>
    /\ pc = "failed" =>
          /\ Says("Database documentation generated") = 0
          /\ written = <<>>

\* The words of the name that decide the operation, by operation.
CreateWords == {<<"c", "r", "e", "a", "t", "e">>, <<"a", "d", "d">>, <<"i", "n", "s", "e", "r", "t">>}
UpdateWords == {<<"u", "p", "d", "a", "t", "e">>, <<"e", "d", "i", "t">>, <<"m", "o", "d", "i", "f", "y">>}
DeleteWords == {<<"d", "e", "l", "e", "t", "e">>, <<"r", "e", "m", "o", "v", "e">>, <<"d", "r", "o", "p">>}
ReadWords == {<<"g", "e", "t">>, <<"f", "i", "n", "d">>, <<"s", "e", "a", "r", "c", "h">>, <<"l", "i", "s", "t">>}

\* The lower-cased name holds one of the words.
HasWord(opId, words) == \E w \in words : Contains(toLowerCase(opId), w)

\* The operation the name stands for, "none" when it holds no word.
KindByName(opId) ==
    IF HasWord(opId, CreateWords) THEN "CREATE"
    ELSE IF HasWord(opId, UpdateWords) THEN "UPDATE"
    ELSE IF HasWord(opId, DeleteWords) THEN "DELETE"
    ELSE IF HasWord(opId, ReadWords) THEN "READ"
    ELSE "none"

\* touches lists a table under key.
Lists(touches, key) ==
    touches.t = "obj" /\ HasKey(touches, key) /\ Member(touches, key).a # <<>>

\* The operation touches stands for, READ when it gives no sign.
KindByTouches(touches) ==
    IF Lists(touches, K_read) /\ Lists(touches, K_write) THEN "READ/WRITE"
    ELSE IF Lists(touches, K_write) THEN "WRITE"
    ELSE "READ"

\* The example of the rendered record with the title, as a sequence of
\* none or one.
ExamplesTitled(title) == SelectSeq(rendered.examples, LAMBDA e : e.title = title)

\* C18: the operation kind of the page is that of the first word group the
\* lower-cased opId holds a word of (create/add/insert, update/edit/
\* modify, delete/remove/drop, get/find/search/list); only when the opId
\* holds no word, touches decides (read and write: READ/WRITE, write only:
\* WRITE, read only: READ) and otherwise it is READ; "deleteUser" without
\* touches is DELETE.
C18_OperationKind ==
    pc = "rendered" =>
        LET opId == Member(func, K_opId).s
            kind == rendered.operation.type
        IN /\ KindByName(opId) # "none" => kind = KindByName(opId)
           /\ KindByName(opId) = "none" => kind = KindByTouches(Member(func, K_touches))
           /\ opId = <<"d", "e", "l", "e", "t", "e", "U", "s", "e", "r">> /\ Member(func, K_touches).t = "undefined" =>
                 kind = "DELETE"

\* C18 witness: "deleteUser" without touches is rendered as DELETE.
C18_Witness ==
    /\ pc = "rendered"
    /\ Member(func, K_opId).s = <<"d", "e", "l", "e", "t", "e", "U", "s", "e", "r">>
    /\ Member(func, K_touches).t = "undefined"
    /\ rendered.operation.type = "DELETE"

\* C19 as claimed: a record whose opId is getOrCreate is displayed as READ,
\* also when its touches lists written tables.
C19_GetOrCreateIsRead ==
    pc = "rendered" /\ Member(func, K_opId).s = <<"g", "e", "t", "O", "r", "C", "r", "e", "a", "t", "e">> =>
        rendered.operation.type = "READ"

\* C19 as amended: a record whose opId is getOrCreate is displayed as
\* CREATE whatever its touches (the words of creating are looked for
\* first); an opId that holds a word of reading and no word of creating,
\* updating or deleting, as getAndSave, is displayed as READ also when its
\* touches lists written tables.
C19_GetOrCreateIsCreate ==
    pc = "rendered" =>
        /\ Member(func, K_opId).s = <<"g", "e", "t", "O", "r", "C", "r", "e", "a", "t", "e">> =>
              rendered.operation = [type |-> "CREATE", color |-> "post"]
        /\ Member(func, K_opId).s = <<"g", "e", "t", "A", "n", "d", "S", "a", "v", "e">> =>
              rendered.operation = [type |-> "READ", color |-> "get"]

\* C19 witness: getOrCreate with a written table is rendered as CREATE.
C19_Witness ==
    /\ pc = "rendered"
    /\ Member(func, K_opId).s = <<"g", "e", "t", "O", "r", "C", "r", "e", "a", "t", "e">>
    /\ Lists(Member(func, K_touches), K_write)
    /\ rendered.operation.type = "CREATE"

\* The text of JSON.stringify({result: "success"}, null, 2).
DefaultOutputExample == <<"{", "\n", " ", " ", "\"", "r", "e", "s", "u", "l", "t", "\"", ":", " ", "\"", "s", "u", "c", "c", "e", "s", "s", "\"", "\n", "}">>

\* C20 as claimed: the examples of every rendered record include a JSON
\* example of the output, and of a record with no output schema that
\* example is {"result": "success"}.
C20_OutputExampleAlways ==
    pc = "rendered" =>
        /\ Len(ExamplesTitled("Expected Output")) = 1
        /\ Member(func, K_output).t = "undefined" =>
              ExamplesTitled("Expected Output")[1].code = DefaultOutputExample

\* C20 as amended: the examples include a JSON example of the output
\* exactly when the record has an output; of an output without properties
\* the example is {"result": "success"}, of an output whose properties are
\* the empty object it is {}; a record with no output has no example of
\* the output.
C20_OutputExampleIfOutput ==
    pc = "rendered" =>
        LET out == Member(func, K_output)
            shown == ExamplesTitled("Expected Output")
        IN /\ Len(shown) = (IF out.t = "undefined" THEN 0 ELSE 1)
           /\ out.t = "obj" /\ ~HasKey(out, K_properties) =>
                 shown[1].code = DefaultOutputExample
           /\ out.t = "obj" /\ Member(out, K_properties) = Obj(<<>>) =>
                 shown[1].code = <<"{", "}">>
           /\ out.t = "obj" /\ Member(out, K_properties).o # <<>> =>
                 /\ JSONparse(shown[1].code).ok
                 /\ Len(JSONparse(shown[1].code).v.o) = Len(Member(out, K_properties).o)

\* C20 witness: a record without output was rendered with no example of
\* the output, and none of its examples is the default.
C20_Witness ==
    /\ pc = "rendered"
    /\ Member(func, K_output).t = "undefined"
    /\ rendered.examples # <<>>
    /\ ExamplesTitled("Expected Output") = <<>>

\* ---------------------------------------------------------- discovery

\* The files discovery looks into: the input file, or the files of the
\* directory that glob matches (of the paths of the model: "a.ts", and
\* with the subdirectories "lib/b.sql" and "src/f.py"; "node_modules/c.js"
\* and "e.test.ts" are ignored and "d.md" is of no pattern).
LookedInto ==
    IF root.isFile THEN {onDisk[1]}
    ELSE {onDisk[x] : x \in {y \in 1..Len(onDisk) :
             \/ onDisk[y].path = <<"a", ".", "t", "s">>
             \/ root.recursive /\ onDisk[y].path \in {<<"l", "i", "b", "/", "b", ".", "s", "q", "l">>, <<"s", "r", "c", "/", "f", ".", "p", "y">>}}}

\* The lower-cased content holds one of the fixed keywords, lower-cased.
ContainsKeyword(content) ==
    LET lower == toLowerCase(content)
    IN \E x \in 1..Len(DATABASE_KEYWORDS) :
           LET keyword == toLowerCase(DATABASE_KEYWORDS[x])
           IN \E y \in 1..Len(lower) :
                  /\ y + Len(keyword) - 1 <= Len(lower)
                  /\ SubSeq(lower, y, y + Len(keyword) - 1) = keyword

\* The paths discovery returned, and the paths it warned of.
ReturnedPaths == {databaseFiles[x].filePath : x \in 1..Len(databaseFiles)}
WarnedPaths ==
    {console[x].about.s : x \in {y \in 1..Len(console) : console[y].level = "warn"}}

\* C21: discovery never aborts because a file cannot be read: whether the
\* input is a directory or a single file, discovery returns, each file
\* that cannot be read has its warning, and none of them is returned.
C21_UnreadableSkipped ==
    pc # "discovery" =>
        /\ pc = "discovered"
        /\ WarnedPaths = {f.path : f \in {g \in LookedInto : ~g.readable}}
        /\ \A f \in LookedInto : ~f.readable => f.path \notin ReturnedPaths

\* C22: discoverDatabaseFiles returns exactly the matched files that can
\* be read and whose content holds a keyword or matches a function
\* pattern, each once.
C22_HeuristicFilter ==
    (pc = "discovered" /\ ~root.isFile) =>
        /\ ReturnedPaths =
               {f.path : f \in {g \in LookedInto :
                   /\ g.readable
                   /\ ContainsKeyword(g.content) \/ hasDatabaseFunctionPatterns(g.content)}}
        /\ \A x, y \in 1..Len(databaseFiles) :
               databaseFiles[x].filePath = databaseFiles[y].filePath => x = y

\* A directory whose first file passes by a function pattern alone and is
\* returned, and whose second file passes neither test and is not.
C22_Witness ==
    /\ pc = "discovered"
    /\ ~root.isFile /\ root.recursive
    /\ Len(onDisk) >= 2
    /\ onDisk[1].readable /\ onDisk[2].readable
    /\ ~ContainsKeyword(onDisk[1].content)
    /\ hasDatabaseFunctionPatterns(onDisk[1].content)
    /\ ~ContainsKeyword(onDisk[2].content)
    /\ ~hasDatabaseFunctionPatterns(onDisk[2].content)
    /\ ReturnedPaths = {onDisk[1].path}

\* ------------------------------------------------------- the callback

\* C23: the progress callback is an observation hook only: whatever
\* callback analyzeWithStreaming is given (none, one that returns, one
\* that throws), it returns, with the provider called once per file in
\* order, the Spec that analyzeFiles returns for the same files, title and
\* provider behaviour: title and the functions of the calls, in order.
C23_ObservationHookOnly ==
    /\ pc # "rejected"
    /\ pc = "analyzed" =>
           /\ started = files
           /\ Len(calls) = Len(files)
           /\ spec = makeSpec(projectTitle, Flatten(results, 1))

\* ----------------------------------------------------- trailing commas

\* The comma at index j of t is followed only by optional whitespace and
\* then a closing } or ].
IsTrailing(t, j) ==
    /\ t[j] = ","
    /\ \E k \in (j + 1)..Len(t) :
           /\ t[k] \in {"}", "]"}
           /\ \A x \in (j + 1)..(k - 1) : IsWs(t[x])

\* The commas of t, and t without its commas and quotes.
CommaCount(t) == Cardinality({j \in 1..Len(t) : t[j] = ","})
Others(t) == SelectSeq(t, LAMBDA c : c \notin {",", "\""})

\* The run of commas of t that starts at index j: a comma followed by
\* optional whitespace and a trailing comma.
CommaRun(t, j) ==
    /\ t[j] = ","
    /\ \E k \in (j + 1)..Len(t) :
           /\ IsTrailing(t, k)
           /\ \A x \in (j + 1)..(k - 1) : IsWs(t[x])

\* C24 as claimed: the output of fixCommonJsonIssues holds no comma that is
\* followed only by optional whitespace and then a closing } or ], runs of
\* several commas included.
C24_NoTrailingCommaLeft ==
    pc = "fixed" => \A j \in 1..Len(fixed) : ~IsTrailing(fixed, j)

\* C24 amended: every comma of the input that is followed only by optional
\* whitespace and then a closing } or ] is removed and no other character
\* is; the output still holds such a comma exactly when the input holds a
\* run of commas before the bracket, of which only the last is removed.
C24_TrailingCommasOfInputRemoved ==
    pc = "fixed" =>
        /\ CommaCount(fixed) =
               CommaCount(text) - Cardinality({j \in 1..Len(text) : IsTrailing(text, j)})
        /\ Others(fixed) = Others(text)
        /\ (\E j \in 1..Len(fixed) : IsTrailing(fixed, j))
               <=> (\E j \in 1..Len(text) : CommaRun(text, j))

\* C24 witness: of the two commas of "[a,,]" the last is removed and the
\* output "[a,]" still ends in a trailing comma.
C24_Witness ==
    /\ pc = "fixed"
    /\ text = <<"[", "a", ",", ",", "]">>
    /\ fixed = <<"[", "a", ",", "]">>

\* -------------------------------------------------- order of the effects

\* The operations of the run on the file system, of one kind.
OpsOf(kind) == SelectSeq(fsOps, LAMBDA o : o.op = kind)

\* C25: with the key of the selected provider missing, or a provider that
\* is neither "openai" nor "gemini", the run exits with a failure status
\* (the first thing it does) before any file is discovered or read, any
\* provider call is made and any output directory or file is created.
C25_PreconditionFirst ==
    ~PreconditionOk =>
        /\ pc \in {"start", "exit1"}
        /\ fsOps = <<>>
        /\ started = <<>> /\ calls = <<>>
        /\ written = <<>>

\* C25 witness: a run with Gemini selected, no key and a file to analyze
\* has exited with the failure status, its error the one line written.
C25_Witness ==
    /\ pc = "exit1"
    /\ Len(files) > 0
    /\ provider = "gemini" /\ ~apiKey
    /\ Len(console) = 1 /\ console[1].level = "error"

\* ------------------------------------------------------------ termination

\* analyzeWithStreaming has returned a Spec.
Analyzed == pc \in {"analyzed", "done", "failed"}

\* C26: with every provider call returning or throwing in the end, a run
\* of analyzeWithStreaming over n files terminates: from wherever the loop
\* is, it comes to return; it never makes more than n provider calls, and
\* when it has returned it has made exactly n and the Spec holds version
\* "0.1.0" and the given title.
C26_Termination ==
    /\ [](Len(calls) <= Len(files) /\ Len(started) <= Len(files))
    /\ [](Analyzed =>
             /\ Len(calls) = Len(files)
             /\ Get(spec, K_version) = Str(<<"0", ".", "1", ".", "0">>)
             /\ Get(Get(spec, K_info), K_title) = Str(projectTitle))
    /\ (pc \in {"loop", "await"}) ~> (pc = "analyzed")

\* C26 witness: analyzeWithStreaming has just returned over three files,
\* the provider having thrown for each of them.
C26_Witness ==
    /\ pc = "analyzed"
    /\ Len(files) = 3
    /\ \A x \in 1..3 : calls[x].threw
    /\ Get(spec, K_functions) = Arr(<<>>)

\* ----------------------------------------------------- the output file

\* C27: the output file is written at most once, at the output path, after
\* the last candidate file was analyzed and after the directory of the
\* path was made; nothing is made or written before the analysis is over,
\* and a run with no candidate file makes no directory and writes no file.
C27_OutputWrittenOnce ==
    /\ Len(OpsOf("write")) <= 1
    /\ \A x \in 1..Len(fsOps) :
           fsOps[x].op = "write" =>
               /\ fsOps[x].path = "outputPath"
               /\ x > 1 /\ fsOps[x - 1] = FsOp("mkdir", "outputDir")
    /\ (OpsOf("mkdir") # <<>> \/ OpsOf("write") # <<>> \/ written # <<>>) =>
           /\ pc \in {"done", "failed"}
           /\ Len(results) = Len(files) /\ Len(files) > 0
           /\ spec = makeSpec(projectTitle, allFunctions)
    /\ Len(files) = 0 =>
           OpsOf("mkdir") = <<>> /\ OpsOf("write") = <<>> /\ written = <<>>

\* C27 witness: a run over two files has written its output: the files
\* were read, then the directory was made, then the file was written.
C27_Witness ==
    /\ pc = "done"
    /\ Len(files) = 2
    /\ fsOps = <<FsOp("read", "input"), FsOp("mkdir", "outputDir"),
                 FsOp("write", "outputPath")>>
    /\ written # <<>>

\* ------------------------------------------------- repair of valid JSON

\* C28: fixCommonJsonIssues preserves valid JSON: a text that parses as
\* JSON is returned as a text that parses to the same value; commas in
\* string values and escaped double quotes are left intact.
C28_RepairPreservesJson ==
    (pc = "fixed" /\ JSONparse(text).ok) =>
        /\ JSONparse(fixed).ok
        /\ JSONparse(fixed).v = JSONparse(text).v

\* ------------------------------------------- records of non-objects

\* The elements of the parsed response that are JSON objects.
ObjectElements == SelectSeq(candidates, LAMBDA e : e.t = "obj")

\* C29: every record analyzeFile returns originates from an object element
\* of the parsed response: a response without object elements (numbers,
\* strings, booleans, null) yields no record, and no response yields more
\* records than it holds objects.
C29_RecordsFromObjects ==
    (pc = "answered" /\ parts.kind \in {"array", "object"} /\ ~answer.threw) =>
        Len(answer.functions) <= Len(ObjectElements)

\* ------------------------------------------------ kind and pseudo-SQL

\* The verb the pseudo-SQL of the operation kind writes with.
VerbOf(kind) ==
    CASE kind = "CREATE" -> <<"/", "/", " ", "-", " ", "I", "N", "S", "E", "R", "T", " ", "I", "N", "T", "O", " ">>
      [] kind = "UPDATE" -> <<"/", "/", " ", "-", " ", "U", "P", "D", "A", "T", "E", " ">>
      [] kind = "DELETE" -> <<"/", "/", " ", "-", " ", "D", "E", "L", "E", "T", "E", " ", "F", "R", "O", "M", " ">>

\* The write lines of the "Database Operations" example of the page: the
\* lines after "// Write operations:".
WriteLines ==
    LET shown == ExamplesTitled("Database Operations")
        code == IF shown = <<>> THEN <<>> ELSE shown[1].code
        at == IndexFrom(code, <<"/", "/", " ", "W", "r", "i", "t", "e", " ", "o", "p", "e", "r", "a", "t", "i", "o", "n", "s", ":", "\n">>, 1)
    IN IF at = 0 THEN <<>> ELSE SubSeq(code, at + Len(<<"/", "/", " ", "W", "r", "i", "t", "e", " ", "o", "p", "e", "r", "a", "t", "i", "o", "n", "s", ":", "\n">>), Len(code))

\* C30: kind and pseudo-SQL agree: a rendered record with a table in
\* touches.write that is displayed as CREATE, UPDATE or DELETE has write
\* lines, and they start with the verb of that kind (INSERT INTO, UPDATE,
\* DELETE FROM).
C30_KindMatchesPseudoSql ==
    (/\ pc = "rendered"
     /\ Lists(Get(func, K_touches), K_write)
     /\ rendered.operation.type \in {"CREATE", "UPDATE", "DELETE"}) =>
        /\ WriteLines # <<>>
        /\ startsWith(WriteLines, VerbOf(rendered.operation.type))

====
